---- MODULE Spec2Model ----
(***************************************************************************)
(* Model of the ENEMETER data processing core:                             *)
(*   internal/parser/csv_parser.go  CSVParser.Parse / CSVParser.StreamRecords *)
(*   internal/metrics (unnamed/part_001)  CalculateMetrics,                *)
(*       StreamCalculateMetrics, metricsTracker.processRecord,             *)
(*       metricsTracker.finalizeMetrics, GetSpecificMetric                 *)
(*   cmd/enemeter-data-processing/main.go  main (process)                  *)
(*   internal/commands/process.go  ParseCommandLineOptions, ProcessCommand, *)
(*       buildFilterOptions, parseTimeString, generateOutput               *)
(*                                                                         *)
(* One behaviour runs the batch path (Parse, then CalculateMetrics) and    *)
(* then the streaming path (StreamCalculateMetrics) over the same file and *)
(* the same FilterOptions, one loop iteration per step.  Spec, SpecLong,   *)
(* SpecGaps and SpecCallback start from a parser that was given its        *)
(* FilterOptions; SpecStride gives the parser of a finished run the stride *)
(* 1 with WithFilterOptions and runs both paths again;                     *)
(* SpecCmd starts from the command line of the process command, at main   *)
(* or at ProcessCommand, runs both branches of ProcessCommand and reports  *)
(* the one --stream selects.                                               *)
(*                                                                         *)
(* Abstractions.  A CSV row is the sequence of its fields as the csv       *)
(* reader returns them, a field is the sequence of its characters.         *)
(* float64 quantities are kept exact in the integer unit of their inputs   *)
(* (millicelsius, microvolt, nanoampere, millisecond and their products);  *)
(* a float64 quotient is kept as the pair of its operands.  int64 range    *)
(* errors and I/O failures of os.Open / file.Close are outside the model.  *)
(***************************************************************************)
EXTENDS Integers, Sequences, FiniteSets

VARIABLES
    earlier,    \* the outcome of the run made before WithFilterOptions was called again
    args,       \* the flags given on the command line of the process command
    command,    \* the activation of ProcessCommand: its position and its result
    callback,   \* the callback handed to StreamRecords
    file,       \* the rows of the input file, in file order
    options,    \* CSVParser.options (FilterOptions)
    parse,      \* the activation of CSVParser.Parse: its locals and its result
    batch,      \* the result of EnergyCalculator.CalculateMetrics
    stream,     \* the activation of CSVParser.StreamRecords
    tracker,    \* the metricsTracker of StreamCalculateMetrics
    streamed    \* the result of StreamCalculateMetrics

vars == <<earlier, args, command, callback, file, options, parse, batch, stream, tracker, streamed>>

-----------------------------------------------------------------------------
(* Bounds and input domains *)

MaxRows == 3

\* Go pointers (*time.Time, *int64, *[2]int64, *EnemeterRecord)
NilPtr(zero) == [nil |-> TRUE, v |-> zero]
Ptr(x) == [nil |-> FALSE, v |-> x]

\* the zero time.Time{} and the instant given as --start, in milliseconds
ZeroTime == 0
MsPerHour == 3600000
T0 == 2 * MsPerHour - 2

Digits == <<"0", "1", "2", "3", "4", "5", "6", "7", "8", "9">>

\* the decimal text of a small integer, as the device writes it
Dec(n) == IF n < 0 THEN <<"-", Digits[(-n) + 1]>> ELSE <<Digits[n + 1]>>

\* a well-formed row [time delta, voltage, current, temperature]
Row(d, v, c, t) == <<Dec(d), Dec(v), Dec(c), Dec(t)>>

GoodRows ==
    { Row(1, 1, 0, 1), Row(2, 1, 0, 1), Row(-1, 1, 0, 1),
      Row(1, 0, 0, 1), Row(1, 2, 1, 1), Row(1, 1, -1, 0) }

\* a row of three fields, a row with a field that is no integer
BadRows ==
    { <<Dec(1), Dec(1), Dec(0)>>,
      <<Dec(1), <<"x">>, Dec(0), Dec(1)>> }

Rows == GoodRows \cup BadRows

\* the rows of the long files: accepted, dropped by the voltage filter, negative
\* delta, not an integer
MaxLongRows == 4
LongRows == { Row(1, 1, 0, 1), Row(1, 0, 0, 1), Row(-1, 1, 0, 1),
              <<Dec(1), <<"x">>, Dec(0), Dec(1)>> }

Files(rows, n) == UNION { [1..k -> rows] : k \in 0..n }

Optional(S, zero) == { NilPtr(zero) } \cup { Ptr(x) : x \in S }

-----------------------------------------------------------------------------
(* strconv.ParseInt(s, 10, 64): an optional sign, then one or more decimal
   digits; anything else is a syntax error. *)

IsDigit(c) == \E i \in 1..10 : Digits[i] = c

DigitVal(c) == (CHOOSE i \in 1..10 : Digits[i] = c) - 1

RECURSIVE ParseUint(_)
ParseUint(s) ==
    IF s = <<>> THEN 0 ELSE 10 * ParseUint(SubSeq(s, 1, Len(s) - 1)) + DigitVal(s[Len(s)])

ParseInt(s) ==
    LET signed == s # <<>> /\ s[1] \in {"+", "-"}
        body   == IF signed THEN Tail(s) ELSE s
        ok     == body # <<>> /\ \A i \in 1..Len(body) : IsDigit(body[i])
        val    == IF ok THEN ParseUint(body) ELSE 0
    IN  [ok |-> ok, val |-> IF signed /\ s[1] = "-" THEN -val ELSE val]

(* csv.Reader.Read with FieldsPerRecord left at its default 0: the first record
   sets the expected field count, every later record with another count is
   returned with ErrFieldCount; past the last row it returns io.EOF. *)
ReaderRead(pos, fieldsPerRecord) ==
    IF pos >= Len(file)
    THEN [err |-> "EOF", row |-> <<>>, fieldsPerRecord |-> fieldsPerRecord]
    ELSE LET row == file[pos + 1]
         IN  IF fieldsPerRecord > 0 /\ Len(row) # fieldsPerRecord
             THEN [err |-> "field count", row |-> row, fieldsPerRecord |-> fieldsPerRecord]
             ELSE [err |-> "", row |-> row,
                   fieldsPerRecord |-> IF fieldsPerRecord = 0 THEN Len(row) ELSE fieldsPerRecord]

-----------------------------------------------------------------------------
(* The gates of the scan loop, shared by Parse and StreamRecords (the two loop
   bodies are the same text). *)

\* the column constants of the loops, as 1-based indexes of a row
timeCol == 1
voltageCol == 2
currentCol == 3
tempCol == 4

\* faulty variant: a row kept only when the counter equals the stride
SampleSkipUnlessEqual(sampleCounter) == sampleCounter + 1 # options.SampleRate

\* faulty variant: the counter compared before it is incremented
SampleSkipPreIncrement(sampleCounter) == sampleCounter < options.SampleRate

\* sampleCounter++; if sampleCounter < SampleRate { continue }
SampleSkip(sampleCounter) == sampleCounter + 1 < options.SampleRate

\* faulty variant: the accumulated time added to the zero time
TimestampFromZero(startTime, accumulatedTimeMs) == ZeroTime + accumulatedTimeMs

\* startTime.Add(time.Duration(accumulatedTimeMs) * time.Millisecond)
TimestampOf(startTime, accumulatedTimeMs) == startTime + accumulatedTimeMs

\* faulty variant: a row at the start instant itself taken as before it
BeforeStartInclusive(timestamp) == ~options.StartTime.nil /\ timestamp <= options.StartTime.v

\* StartTime != nil && timestamp.Before(*StartTime)
BeforeStart(timestamp) == ~options.StartTime.nil /\ timestamp < options.StartTime.v

\* EndTime != nil && timestamp.After(*EndTime)
AfterEnd(timestamp) == ~options.EndTime.nil /\ timestamp > options.EndTime.v

\* TempThreshold != nil && tempMiliCelsius < *TempThreshold
TempDrop(tempMiliCelsius) ==
    ~options.TempThreshold.nil /\ tempMiliCelsius < options.TempThreshold.v

\* faulty variant: the voltage range taken as exclusive
VoltageDropExclusive(voltageMicroV) ==
    /\ ~options.VoltageRange.nil
    /\ (voltageMicroV <= options.VoltageRange.v[1] \/ voltageMicroV >= options.VoltageRange.v[2])

\* VoltageRange != nil && (v < VoltageRange[0] || v > VoltageRange[1])
VoltageDrop(voltageMicroV) ==
    /\ ~options.VoltageRange.nil
    /\ (voltageMicroV < options.VoltageRange.v[1] \/ voltageMicroV > options.VoltageRange.v[2])

\* CurrentRange != nil && (c < CurrentRange[0] || c > CurrentRange[1])
CurrentDrop(currentNanoA) ==
    /\ ~options.CurrentRange.nil
    /\ (currentNanoA < options.CurrentRange.v[1] \/ currentNanoA > options.CurrentRange.v[2])

ZeroRecord ==
    [TimeDeltaMs |-> 0, TempMiliCelsius |-> 0, VoltageMicroV |-> 0,
     CurrentNanoA |-> 0, Timestamp |-> ZeroTime]

\* the result of decoding a row: err names the failing check, "" when none
Decoded(err, timeDelta, voltageMicroV, currentNanoA, tempMiliCelsius) ==
    [err |-> err, timeDelta |-> timeDelta, voltageMicroV |-> voltageMicroV,
     currentNanoA |-> currentNanoA, tempMiliCelsius |-> tempMiliCelsius]

\* the four err != nil checks after the strconv.ParseInt calls, in source order
DecodeFields(timeDelta, voltageMicroV, currentNanoA, tempMiliCelsius) ==
    IF ~timeDelta.ok THEN Decoded("time delta", 0, 0, 0, 0) ELSE
    IF ~voltageMicroV.ok THEN Decoded("voltage", 0, 0, 0, 0) ELSE
    IF ~currentNanoA.ok THEN Decoded("current", 0, 0, 0, 0) ELSE
    IF ~tempMiliCelsius.ok THEN Decoded("temperature", 0, 0, 0, 0) ELSE
    Decoded("", timeDelta.val, voltageMicroV.val, currentNanoA.val, tempMiliCelsius.val)

\* faulty variant: the voltage and the current read from each other's column
DecodeRowSwapped(row) ==
    IF Len(row) # 4 THEN Decoded("format", 0, 0, 0, 0)
    ELSE DecodeFields(ParseInt(row[timeCol]), ParseInt(row[currentCol]),
                      ParseInt(row[voltageCol]), ParseInt(row[tempCol]))

(* The row-shape check and the four strconv.ParseInt calls: err names the
   failing check ("format", "time delta", "voltage", "current",
   "temperature"), "" when the row decodes. *)
DecodeRow(row) ==
    IF Len(row) # 4 THEN Decoded("format", 0, 0, 0, 0)
    ELSE DecodeFields(ParseInt(row[timeCol]), ParseInt(row[voltageCol]),
                      ParseInt(row[currentCol]), ParseInt(row[tempCol]))

\* faulty variant: a row after the end bound skipped with continue instead of break
FilterExitEndContinues(record) ==
    IF BeforeStart(record.Timestamp) \/ AfterEnd(record.Timestamp) THEN "before" ELSE
    IF TempDrop(record.TempMiliCelsius) THEN "temp" ELSE
    IF VoltageDrop(record.VoltageMicroV) THEN "volt" ELSE
    IF CurrentDrop(record.CurrentNanoA) THEN "curr" ELSE
    "emit"

(* The time window and the value filters, in source order: the exit taken is
   a continue ("before", "temp", "volt", "curr"), the break ("after") or none
   ("emit"). *)
FilterExit(record) ==
    IF BeforeStart(record.Timestamp) THEN "before" ELSE
    IF AfterEnd(record.Timestamp) THEN "after" ELSE
    IF TempDrop(record.TempMiliCelsius) THEN "temp" ELSE
    IF VoltageDrop(record.VoltageMicroV) THEN "volt" ELSE
    IF CurrentDrop(record.CurrentNanoA) THEN "curr" ELSE
    "emit"

\* EnemeterRecord{...} of a decoded row d at the accumulated time acc
RecordOf(d, startTime, acc) ==
    [TimeDeltaMs     |-> d.timeDelta,
     TempMiliCelsius |-> d.tempMiliCelsius,
     VoltageMicroV   |-> d.voltageMicroV,
     CurrentNanoA    |-> d.currentNanoA,
     Timestamp       |-> TimestampOf(startTime, acc)]

\* the outcome of the loop body: the exit taken, the accumulated time after
\* it, the record built
Outcome(kind, accumulatedTimeMs, record) ==
    [kind |-> kind, accumulatedTimeMs |-> accumulatedTimeMs, record |-> record]

\* faulty variant: the time delta accumulated only for the rows that pass the filters
AfterDecodeAccOnEmit(d, startTime, accumulatedTimeMs) ==
    IF d.err # "" THEN Outcome(d.err, accumulatedTimeMs, ZeroRecord) ELSE
    LET record == RecordOf(d, startTime, accumulatedTimeMs + d.timeDelta) IN
    Outcome(FilterExit(record),
            IF FilterExit(record) \in {"temp", "volt", "curr"}
            THEN accumulatedTimeMs ELSE accumulatedTimeMs + d.timeDelta,
            record)

(* The part of the loop body after the decode of the row into d: the error
   return, or accumulatedTimeMs += timeDelta, the timestamp, the window and
   the filters, the record. *)
AfterDecode(d, startTime, accumulatedTimeMs) ==
    IF d.err # "" THEN Outcome(d.err, accumulatedTimeMs, ZeroRecord) ELSE
    LET record == RecordOf(d, startTime, accumulatedTimeMs + d.timeDelta) IN
    Outcome(FilterExit(record), accumulatedTimeMs + d.timeDelta, record)

(* The loop body from the row-shape check to the construction of the record:
   the exit taken, the accumulated time after it and the record built. *)
LoopBody(row, startTime, accumulatedTimeMs) ==
    AfterDecode(DecodeRow(row), startTime, accumulatedTimeMs)

ErrorKinds == {"format", "time delta", "voltage", "current", "temperature"}
ContinueKinds == {"before", "temp", "volt", "curr"}

-----------------------------------------------------------------------------
(* CSVParser.Parse *)

\* the activation before the call: nothing opened, nothing returned
ScanInit ==
    [status |-> "init", err |-> "", pos |-> 0, fieldsPerRecord |-> 0,
     accumulatedTimeMs |-> 0, recordCount |-> 0, sampleCounter |-> 0,
     records |-> <<>>, trace |-> <<>>]

Entry(exit, record) == [exit |-> exit, record |-> record]

\* faulty variant: the scan entered without the StartTime check
ScanEnterUnchecked(sc) == [sc EXCEPT !.status = "scanning"]

\* csv.NewReader, the StartTime check, the locals set before the loop
ScanEnter(sc) ==
    IF options.StartTime.nil
    THEN [sc EXCEPT !.status = "failed", !.err = "start time"]
    ELSE [sc EXCEPT !.status = "scanning"]

\* for MaxRecords <= 0 || len(records) < MaxRecords
ParseLoopCond(p) == options.MaxRecords <= 0 \/ Len(p.records) < options.MaxRecords

\* a row read: the position and the reader's expected field count move on
Consumed(sc, rd) == [sc EXCEPT !.pos = @ + 1, !.fieldsPerRecord = rd.fieldsPerRecord]

\* the scan takes exit `exit` on the row just read
Exits(sc, exit, record) == [sc EXCEPT !.trace = Append(@, Entry(exit, record))]

(* Parse after the loop body gave outcome b for the row just read: an error
   return (no records), the break, a continue, or the append. *)
ParseOutcome(p, b) ==
    LET r == [Exits(p, b.kind, b.record) EXCEPT
                 !.sampleCounter = 0, !.accumulatedTimeMs = b.accumulatedTimeMs]
    IN
    IF b.kind \in ErrorKinds
    THEN [r EXCEPT !.status = "failed", !.err = b.kind, !.records = <<>>]
    ELSE IF b.kind = "after" THEN [r EXCEPT !.status = "returned"]
    ELSE IF b.kind \in ContinueKinds THEN r
    ELSE [r EXCEPT !.records = Append(@, b.record), !.recordCount = @ + 1]

(* Parse after reader.Read returned rd: io.EOF breaks, another error returns
   it, else the sampling gate and the loop body. *)
ParseRead(p, rd) ==
    IF rd.err = "EOF" THEN [p EXCEPT !.status = "returned"] ELSE
    IF rd.err # ""
    THEN [Exits(p, "read", ZeroRecord) EXCEPT
             !.status = "failed", !.err = "read", !.records = <<>>, !.pos = @ + 1]
    ELSE
    IF SampleSkip(p.sampleCounter)
    THEN [Exits(Consumed(p, rd), "sampled", ZeroRecord) EXCEPT !.sampleCounter = @ + 1]
    ELSE ParseOutcome(Consumed(p, rd),
                      LoopBody(rd.row, options.StartTime.v, p.accumulatedTimeMs))

(* One evaluation of the loop condition and, when it holds, one iteration of
   the loop of Parse.  trace gets, for each row read, the exit it took
   ("read": the reader's error; "sampled": the sampling continue; else the
   exit of the loop body) and the record built from it, if any. *)
ParseIter(p) ==
    IF ~ParseLoopCond(p) THEN [p EXCEPT !.status = "returned"]
    ELSE ParseRead(p, ReaderRead(p.pos, p.fieldsPerRecord))

-----------------------------------------------------------------------------
(* CSVParser.StreamRecords; records holds the records handed to the callback,
   in call order. *)

\* MaxRecords > 0 && recordCount >= MaxRecords
StreamCap(st) == options.MaxRecords > 0 /\ st.recordCount >= options.MaxRecords

(* StreamRecords after the loop body gave outcome b for the row just read:
   status "callback" when a record was built and is to be handed over. *)
StreamOutcome(st, b) ==
    LET r == [Exits(st, b.kind, b.record) EXCEPT
                 !.sampleCounter = 0, !.accumulatedTimeMs = b.accumulatedTimeMs]
    IN
    IF b.kind \in ErrorKinds
    THEN [r EXCEPT !.status = "failed", !.err = b.kind]
    ELSE IF b.kind = "after" THEN [r EXCEPT !.status = "returned"]
    ELSE IF b.kind \in ContinueKinds THEN r
    ELSE [r EXCEPT !.status = "callback", !.records = Append(@, b.record)]

\* faulty variant: the sampling gate and the cap applied to the rows that
\* passed the time window and the value filters
StreamReadFiltersFirst(st, rd) ==
    IF rd.err = "EOF" THEN [st EXCEPT !.status = "returned"] ELSE
    IF rd.err # ""
    THEN [Exits(st, "read", ZeroRecord) EXCEPT
             !.status = "failed", !.err = "read", !.pos = @ + 1]
    ELSE
    IF LoopBody(rd.row, options.StartTime.v, st.accumulatedTimeMs).kind # "emit"
    THEN StreamOutcome(Consumed(st, rd),
                       LoopBody(rd.row, options.StartTime.v, st.accumulatedTimeMs))
    ELSE
    IF SampleSkip(st.sampleCounter)
    THEN [Exits(Consumed(st, rd), "sampled", ZeroRecord) EXCEPT !.sampleCounter = @ + 1]
    ELSE
    IF StreamCap(st)
    THEN [Exits(Consumed(st, rd), "cap", ZeroRecord) EXCEPT
             !.sampleCounter = 0, !.status = "returned"]
    ELSE StreamOutcome(Consumed(st, rd),
                       LoopBody(rd.row, options.StartTime.v, st.accumulatedTimeMs))

(* StreamRecords after reader.Read returned rd: io.EOF breaks, another error
   returns it, else the sampling gate, the cap and the loop body. *)
StreamRead(st, rd) ==
    IF rd.err = "EOF" THEN [st EXCEPT !.status = "returned"] ELSE
    IF rd.err # ""
    THEN [Exits(st, "read", ZeroRecord) EXCEPT
             !.status = "failed", !.err = "read", !.pos = @ + 1]
    ELSE
    IF SampleSkip(st.sampleCounter)
    THEN [Exits(Consumed(st, rd), "sampled", ZeroRecord) EXCEPT !.sampleCounter = @ + 1]
    ELSE
    IF StreamCap(st)
    THEN [Exits(Consumed(st, rd), "cap", ZeroRecord) EXCEPT
             !.sampleCounter = 0, !.status = "returned"]
    ELSE StreamOutcome(Consumed(st, rd),
                       LoopBody(rd.row, options.StartTime.v, st.accumulatedTimeMs))

(* One iteration of the loop of StreamRecords up to the callback. *)
StreamIter(st) == StreamRead(st, ReaderRead(st.pos, st.fieldsPerRecord))

-----------------------------------------------------------------------------
(* metricsTracker *)

\* math.MaxFloat64, the sentinel of the running minima and maxima: any value
\* above every magnitude the inputs produce
MaxFloat64 == 1000000

SecondsPerDay == 86400

Abs(x) == IF x < 0 THEN -x ELSE x

\* a float64 quotient a / b, kept as its operands
Quot(a, b) == [num |-> a, den |-> b]

\* the float64 zero value in the place of a quotient
ZeroQuot == Quot(0, 1)

\* time.Time.Hour() of an instant in milliseconds
Hour(timestamp) == (timestamp \div MsPerHour) % 24

\* a Go map[int]float64: nil, or a finite mapping
NilMap == [nil |-> TRUE, kv |-> <<>>]
EmptyMap == [nil |-> FALSE, kv |-> <<>>]

\* m[k] += x on a non-nil map: a missing key reads as 0 and is created
MapAdd(m, k, x) ==
    [m EXCEPT !.kv = [h \in (DOMAIN m.kv) \cup {k} |->
                        IF h = k
                        THEN (IF k \in DOMAIN m.kv THEN m.kv[k] ELSE 0) + x
                        ELSE m.kv[h]]]

newMetricsTracker ==
    [totalJoules |-> 0, totalPower |-> 0, peakPower |-> 0, totalDurationMs |-> 0,
     dataPoints |-> 0,
     startTime |-> ZeroTime, endTime |-> ZeroTime, firstTimestamp |-> TRUE,
     tempSum |-> 0, minTemp |-> MaxFloat64, maxTemp |-> -MaxFloat64, tempCount |-> 0,
     voltSum |-> 0, minVolt |-> MaxFloat64, maxVolt |-> -MaxFloat64, voltCount |-> 0,
     currentSum |-> 0, minCurrent |-> MaxFloat64, maxCurrent |-> -MaxFloat64,
     maxDischarge |-> 0, maxCharging |-> 0, currentCount |-> 0,
     totalDischargeTime |-> 0, totalChargeTime |-> 0,
     totalDischargeEnergy |-> 0, totalChargeEnergy |-> 0,
     energyByHour |-> EmptyMap,
     prevRecord |-> NilPtr(ZeroRecord)]

\* faulty variant: the first record integrated like the later ones
IntegratesAlways(mt) == TRUE

\* if mt.prevRecord != nil: the record is integrated
Integrates(mt) == ~mt.prevRecord.nil

\* faulty variant: a current of exactly zero counted as discharge
DischargingOrZero(amps) == amps <= 0

\* if amps < 0: the discharge side of the balance, else the charge side
Discharging(amps) == amps < 0

\* faulty variant: the peak taken over the integrated records only
PeakAfterFoldIntegratedOnly(mt, instantPower) ==
    IF ~mt.prevRecord.nil /\ Abs(instantPower) > mt.peakPower
    THEN Abs(instantPower) ELSE mt.peakPower

\* if math.Abs(instantPower) > mt.peakPower { mt.peakPower = math.Abs(instantPower) }
PeakAfterFold(mt, instantPower) ==
    IF Abs(instantPower) > mt.peakPower THEN Abs(instantPower) ELSE mt.peakPower

\* faulty variant: the previous record kept from the first fold on
PrevAfterFoldFirstOnly(mt, record) == IF mt.prevRecord.nil THEN Ptr(record) ELSE mt.prevRecord

\* mt.prevRecord = &record
PrevAfterFold(mt, record) == Ptr(record)

\* faulty variant: the time since the previous record taken from the timestamps
IntegratedMsByTimestamps(mt, record) == record.Timestamp - mt.prevRecord.v.Timestamp

\* durationSecs := float64(record.TimeDeltaMs) / 1000.0; totalDurationMs += record.TimeDeltaMs
IntegratedMs(mt, record) == record.TimeDeltaMs

(* processRecord.  Units: tempCelsius in millicelsius, volts in microvolts,
   amps in nanoamperes, durationSecs in milliseconds, instantPower in
   microvolt * nanoampere, joules in microvolt * nanoampere * millisecond. *)
processRecord(mt, record) ==
    LET tempCelsius  == record.TempMiliCelsius
        volts        == record.VoltageMicroV
        amps         == record.CurrentNanoA
        powerVolts   == Abs(volts)
        instantPower == powerVolts * amps
        durationSecs == IntegratedMs(mt, record)
        joules       == instantPower * durationSecs
        integrate    == Integrates(mt)
    IN
    [mt EXCEPT
       !.startTime = IF mt.firstTimestamp THEN record.Timestamp ELSE @,
       !.firstTimestamp = FALSE,
       !.endTime = record.Timestamp,
       !.tempSum = @ + tempCelsius,
       !.tempCount = @ + 1,
       !.minTemp = IF tempCelsius < @ THEN tempCelsius ELSE @,
       !.maxTemp = IF tempCelsius > @ THEN tempCelsius ELSE @,
       !.voltSum = @ + volts,
       !.voltCount = @ + 1,
       !.minVolt = IF volts < @ THEN volts ELSE @,
       !.maxVolt = IF volts > @ THEN volts ELSE @,
       !.currentSum = @ + amps,
       !.currentCount = @ + 1,
       !.minCurrent = IF amps < @ THEN amps ELSE @,
       !.maxCurrent = IF amps > @ THEN amps ELSE @,
       !.maxDischarge = IF amps < 0 /\ Abs(amps) > @ THEN Abs(amps) ELSE @,
       !.maxCharging =
           IF amps < 0 /\ Abs(amps) > mt.maxDischarge THEN @
           ELSE IF amps > 0 /\ amps > @ THEN amps ELSE @,
       !.peakPower = PeakAfterFold(mt, instantPower),
       !.totalDurationMs = IF integrate THEN @ + durationSecs ELSE @,
       !.totalJoules = IF integrate THEN @ + joules ELSE @,
       !.totalPower = IF integrate THEN @ + instantPower ELSE @,
       !.energyByHour = IF integrate THEN MapAdd(@, Hour(record.Timestamp), joules) ELSE @,
       !.totalDischargeTime = IF integrate /\ Discharging(amps) THEN @ + durationSecs ELSE @,
       !.totalDischargeEnergy = IF integrate /\ Discharging(amps) THEN @ + Abs(joules) ELSE @,
       !.totalChargeTime = IF integrate /\ ~Discharging(amps) THEN @ + durationSecs ELSE @,
       !.totalChargeEnergy = IF integrate /\ ~Discharging(amps) THEN @ + joules ELSE @,
       !.prevRecord = PrevAfterFold(mt, record),
       !.dataPoints = @ + 1]

\* the zero values of the stats structs
ZeroStats == [Min |-> 0, Max |-> 0, Avg |-> ZeroQuot]
ZeroCurrentStats ==
    [Min |-> 0, Max |-> 0, Avg |-> ZeroQuot, MaxDischarge |-> 0, MaxCharging |-> 0]

\* EnergyMetrics{}
ZeroMetrics ==
    [TotalJoules |-> 0, AveragePowerWatts |-> ZeroQuot, PeakPowerWatts |-> 0,
     JoulesPerDay |-> ZeroQuot, DurationSeconds |-> 0,
     TemperatureStats |-> ZeroStats,
     EnergyConsumptionByHour |-> NilMap,
     VoltageStats |-> ZeroStats,
     CurrentStats |-> ZeroCurrentStats,
     BatteryStats |-> [EstimatedCapacity |-> 0, AverageDischargeRate |-> ZeroQuot,
                       TotalDischargeTime |-> 0, TotalChargeTime |-> 0,
                       DischargeToChargeRatio |-> ZeroQuot],
     SolarStats |-> [TotalEnergyProduced |-> 0, AverageOutput |-> ZeroQuot,
                     PeakOutput |-> 0, ContributionPercentage |-> ZeroQuot],
     TimeRange |-> [StartTime |-> ZeroTime, EndTime |-> ZeroTime],
     DataPoints |-> 0]

\* faulty variant: the statistics copied without the count > 0 guard
StatsOfUnguarded(count, min, max, sum) ==
    [Min |-> min, Max |-> max, Avg |-> IF count > 0 THEN Quot(sum, count) ELSE ZeroQuot]

\* if count > 0 { stats = {min, max, sum / float64(count)} }, else the zero struct
StatsOf(count, min, max, sum) ==
    IF count > 0 THEN [Min |-> min, Max |-> max, Avg |-> Quot(sum, count)] ELSE ZeroStats

\* faulty variant: the division made whatever the denominator is
QuotUnguarded(num, den) == Quot(num, den)

\* if den > 0 { field = num / den }, else the field keeps its zero value
QuotIfPositive(num, den) == IF den > 0 THEN Quot(num, den) ELSE ZeroQuot

(* finalizeMetrics.  DurationSeconds is in milliseconds; JoulesPerDay is
   totalJoules * secondsPerDay over the duration; ContributionPercentage is
   totalChargeEnergy * 100 over the total energy. *)
finalizeMetrics(mt) ==
    LET durationSeconds == mt.totalDurationMs
        totalTime   == mt.totalDischargeTime + mt.totalChargeTime
        totalEnergy == mt.totalDischargeEnergy + mt.totalChargeEnergy
    IN
    [TotalJoules |-> mt.totalJoules,
     AveragePowerWatts |->
         QuotIfPositive(mt.totalJoules, durationSeconds),
     PeakPowerWatts |-> mt.peakPower,
     JoulesPerDay |->
         QuotIfPositive(mt.totalJoules * SecondsPerDay, durationSeconds),
     DurationSeconds |-> durationSeconds,
     TemperatureStats |-> StatsOf(mt.tempCount, mt.minTemp, mt.maxTemp, mt.tempSum),
     EnergyConsumptionByHour |-> mt.energyByHour,
     VoltageStats |-> StatsOf(mt.voltCount, mt.minVolt, mt.maxVolt, mt.voltSum),
     CurrentStats |->
         IF mt.currentCount > 0
         THEN [Min |-> mt.minCurrent, Max |-> mt.maxCurrent,
               Avg |-> Quot(mt.currentSum, mt.currentCount),
               MaxDischarge |-> mt.maxDischarge, MaxCharging |-> mt.maxCharging]
         ELSE ZeroCurrentStats,
     BatteryStats |->
         [EstimatedCapacity |-> 0,
          AverageDischargeRate |->
              QuotIfPositive(mt.totalDischargeEnergy, mt.totalDischargeTime),
          TotalDischargeTime |-> mt.totalDischargeTime,
          TotalChargeTime |-> mt.totalChargeTime,
          DischargeToChargeRatio |->
              QuotIfPositive(mt.totalDischargeTime, totalTime)],
     SolarStats |->
         [TotalEnergyProduced |-> mt.totalChargeEnergy,
          AverageOutput |->
              QuotIfPositive(mt.totalChargeEnergy, mt.totalChargeTime),
          PeakOutput |-> mt.maxCharging,
          ContributionPercentage |->
              QuotIfPositive(mt.totalChargeEnergy * 100, totalEnergy)],
     TimeRange |-> [StartTime |-> mt.startTime, EndTime |-> mt.endTime],
     DataPoints |-> mt.dataPoints]

\* faulty variant: the counters cleared once the snapshot is built
TrackerAfterFinalizeCleared(mt) == [mt EXCEPT !.dataPoints = 0, !.totalDurationMs = 0]

\* the receiver after finalizeMetrics: the method assigns to no field of it
TrackerAfterFinalize(mt) == mt

\* the fold of processRecord over a list, in list order
RECURSIVE FoldRecords(_, _)
FoldRecords(mt, records) ==
    IF records = <<>> THEN mt
    ELSE FoldRecords(processRecord(mt, Head(records)), Tail(records))

\* EnergyCalculator.CalculateMetrics over e.records
CalculateMetricsOf(records) ==
    IF Len(records) = 0 THEN ZeroMetrics
    ELSE finalizeMetrics(FoldRecords(newMetricsTracker, records))

-----------------------------------------------------------------------------
(* time.Parse with the layouts of parseTimeString, and time.ParseDuration.
   An instant is its number of milliseconds since 1970-01-01T00:00:00 UTC, a
   duration its number of milliseconds: digits of a fractional second past
   the third are dropped. *)

MsPerSecond == 1000
MsPerMinute == 60000
MsPerDay == 86400000

\* the outcome of reading one element of a layout: the value read and the
\* text left
Got(ok, val, rest) == [ok |-> ok, val |-> val, rest |-> rest]

DropFirst(s, n) == SubSeq(s, n + 1, Len(s))

\* getnum(s, fixed): a number of two digits, or of one digit unless fixed
GetNum(s, fixed) ==
    IF s = <<>> \/ ~IsDigit(s[1]) THEN Got(FALSE, 0, s)
    ELSE IF Len(s) < 2 \/ ~IsDigit(s[2])
         THEN (IF fixed THEN Got(FALSE, 0, s) ELSE Got(TRUE, DigitVal(s[1]), Tail(s)))
         ELSE Got(TRUE, 10 * DigitVal(s[1]) + DigitVal(s[2]), DropFirst(s, 2))

\* the element "2006": exactly the next four characters, all digits
GetYear(s) ==
    IF Len(s) >= 4 /\ \A i \in 1..4 : IsDigit(s[i])
    THEN Got(TRUE, ParseUint(SubSeq(s, 1, 4)), DropFirst(s, 4))
    ELSE Got(FALSE, 0, s)

\* the digits that follow the seconds, as milliseconds
Millis(digits) ==
    ParseUint(SubSeq(digits \o <<"0", "0">>, 1, 3))

\* the length of the longest prefix of s made of digits
RECURSIVE DigitRun(_)
DigitRun(s) == IF s = <<>> \/ ~IsDigit(s[1]) THEN 0 ELSE 1 + DigitRun(Tail(s))

(* A fractional second right after the seconds, which time.Parse accepts
   although no layout of parseTimeString names it: a period or a comma and
   one or more digits. *)
GetFraction(s) ==
    IF Len(s) >= 2 /\ s[1] \in {".", ","} /\ IsDigit(s[2])
    THEN Got(TRUE, Millis(SubSeq(s, 2, 1 + DigitRun(Tail(s)))),
             DropFirst(s, 1 + DigitRun(Tail(s))))
    ELSE Got(TRUE, 0, s)

\* cutspace: the text without its leading spaces
RECURSIVE CutSpace(_)
CutSpace(s) == IF s = <<>> \/ s[1] # " " THEN s ELSE CutSpace(Tail(s))

\* the fields time.Parse fills; those the layout does not name keep these values
ZeroFields == [year |-> 0, month |-> 1, day |-> 1, hour |-> 0, min |-> 0, sec |-> 0, msec |-> 0]

IsLeap(year) == year % 4 = 0 /\ (year % 100 # 0 \/ year % 400 = 0)

\* daysIn(month, year)
DaysIn(month, year) ==
    IF month = 2 THEN (IF IsLeap(year) THEN 29 ELSE 28)
    ELSE IF month \in {4, 6, 9, 11} THEN 30 ELSE 31

\* the days from 1970-01-01 to the first day of the year, to the first day
\* of the month within the year
RECURSIVE DaysBeforeYear(_)
DaysBeforeYear(year) ==
    IF year <= 1970 THEN 0
    ELSE DaysBeforeYear(year - 1) + (IF IsLeap(year - 1) THEN 366 ELSE 365)

RECURSIVE DaysBeforeMonth(_, _)
DaysBeforeMonth(month, year) ==
    IF month <= 1 THEN 0 ELSE DaysBeforeMonth(month - 1, year) + DaysIn(month - 1, year)

\* time.Date(year, month, day, hour, min, sec, nsec, time.UTC), for a year
\* from 1970 on
Date(f) ==
    (DaysBeforeYear(f.year) + DaysBeforeMonth(f.month, f.year) + (f.day - 1)) * MsPerDay
        + f.hour * MsPerHour + f.min * MsPerMinute + f.sec * MsPerSecond + f.msec

\* the result of a parse: err is "" or the error
Parsed(err, val) == [err |-> err, val |-> val]

(* One element of a layout read from the value: the fields after it and the
   text left, or the failure.  "2006", "01", "02", "15", "04" and "05" are
   the elements of the reference time, any other element is literal text; a
   space of the layout stands for any run of spaces. *)
ParseElement(elem, f, value) ==
    IF elem = "2006"
    THEN LET g == GetYear(value) IN
         [ok |-> g.ok, f |-> [f EXCEPT !.year = g.val], rest |-> g.rest]
    ELSE IF elem = "01"
    THEN LET g == GetNum(value, TRUE) IN
         [ok |-> g.ok /\ g.val >= 1 /\ g.val <= 12,
          f |-> [f EXCEPT !.month = g.val], rest |-> g.rest]
    ELSE IF elem = "02"
    THEN LET g == GetNum(value, TRUE) IN
         [ok |-> g.ok, f |-> [f EXCEPT !.day = g.val], rest |-> g.rest]
    ELSE IF elem = "15"
    THEN LET g == GetNum(value, FALSE) IN
         [ok |-> g.ok /\ g.val < 24, f |-> [f EXCEPT !.hour = g.val], rest |-> g.rest]
    ELSE IF elem = "04"
    THEN LET g == GetNum(value, TRUE) IN
         [ok |-> g.ok /\ g.val < 60, f |-> [f EXCEPT !.min = g.val], rest |-> g.rest]
    ELSE IF elem = "05"
    THEN LET g == GetNum(value, TRUE) IN
         [ok |-> g.ok /\ g.val < 60,
          f |-> [f EXCEPT !.sec = g.val, !.msec = GetFraction(g.rest).val],
          rest |-> GetFraction(g.rest).rest]
    ELSE IF elem = " "
    THEN [ok |-> value = <<>> \/ value[1] = " ", f |-> f, rest |-> CutSpace(value)]
    ELSE [ok |-> value # <<>> /\ value[1] = elem, f |-> f, rest |-> DropFirst(value, 1)]

(* time.Parse(layout, value): the elements in order, no text left over, the
   day within its month. *)
RECURSIVE TimeParse(_, _, _)
TimeParse(layout, f, value) ==
    IF layout = <<>>
    THEN (IF value # <<>> \/ f.day < 1 \/ f.day > DaysIn(f.month, f.year)
          THEN Parsed("parse", ZeroTime)
          ELSE Parsed("", Date(f)))
    ELSE IF ~ParseElement(Head(layout), f, value).ok THEN Parsed("parse", ZeroTime)
    ELSE TimeParse(Tail(layout), ParseElement(Head(layout), f, value).f,
                   ParseElement(Head(layout), f, value).rest)

\* the layouts of parseTimeString, in its order
Layouts ==
    << <<"2006", "-", "01", "-", "02", "T", "15", ":", "04", ":", "05">>,
       <<"2006", "-", "01", "-", "02", " ", "15", ":", "04", ":", "05">>,
       <<"2006", "-", "01", "-", "02", "T", "15", ":", "04">>,
       <<"2006", "-", "01", "-", "02", " ", "15", ":", "04">>,
       <<"2006", "-", "01", "-", "02">> >>

\* parseTimeString: the first layout that parses the text, else the error
RECURSIVE TryLayouts(_, _)
TryLayouts(layouts, timeStr) ==
    IF layouts = <<>> THEN Parsed("could not parse time", ZeroTime)
    ELSE IF TimeParse(Head(layouts), ZeroFields, timeStr).err = ""
         THEN TimeParse(Head(layouts), ZeroFields, timeStr)
         ELSE TryLayouts(Tail(layouts), timeStr)

parseTimeString(timeStr) == TryLayouts(Layouts, timeStr)

(* time.ParseDuration: an optional sign, then one or more groups of a
   decimal number and a unit.  The result is in milliseconds: a part of it
   below one millisecond is dropped. *)

\* unitMap, each unit as a fraction of a millisecond
UnitMap ==
    { [unit |-> <<"n", "s">>, num |-> 1, den |-> 1000000],
      [unit |-> <<"u", "s">>, num |-> 1, den |-> 1000],
      [unit |-> <<"m", "s">>, num |-> 1, den |-> 1],
      [unit |-> <<"s">>, num |-> MsPerSecond, den |-> 1],
      [unit |-> <<"m">>, num |-> MsPerMinute, den |-> 1],
      [unit |-> <<"h">>, num |-> MsPerHour, den |-> 1] }

KnownUnit(u) == \E e \in UnitMap : e.unit = u
UnitOf(u) == CHOOSE e \in UnitMap : e.unit = u

RECURSIVE Pow10(_)
Pow10(n) == IF n = 0 THEN 1 ELSE 10 * Pow10(n - 1)

\* the length of the unit at the head of s: up to the next digit or period
RECURSIVE UnitRun(_)
UnitRun(s) ==
    IF s = <<>> \/ s[1] = "." \/ IsDigit(s[1]) THEN 0 ELSE 1 + UnitRun(Tail(s))

\* v.f of the unit e, f having `places` digits
Amount(v, f, places, e) ==
    (v * e.num) \div e.den + (f * e.num) \div (Pow10(places) * e.den)

(* The groups of a duration from the one that starts at s, d being the sum
   of the groups before it; pre and post are the lengths of the digits
   before and after the period. *)
RECURSIVE DurationGroups(_, _)
DurationGroup(s, d, pre, post, afterNumber) ==
    LET u == SubSeq(afterNumber, 1, UnitRun(afterNumber)) IN
    IF pre = 0 /\ post = 0 THEN Parsed("invalid duration", 0)
    ELSE IF u = <<>> THEN Parsed("missing unit in duration", 0)
    ELSE IF ~KnownUnit(u) THEN Parsed("unknown unit in duration", 0)
    ELSE DurationGroups(DropFirst(afterNumber, Len(u)),
                        d + Amount(ParseUint(SubSeq(s, 1, pre)),
                                   ParseUint(SubSeq(s, pre + 2, pre + 1 + post)),
                                   post, UnitOf(u)))

DurationGroups(s, d) ==
    IF s = <<>> THEN Parsed("", d)
    ELSE IF ~(s[1] = "." \/ IsDigit(s[1])) THEN Parsed("invalid duration", 0)
    ELSE IF Len(s) > DigitRun(s) /\ s[DigitRun(s) + 1] = "."
         THEN DurationGroup(s, d, DigitRun(s), DigitRun(DropFirst(s, DigitRun(s) + 1)),
                            DropFirst(s, DigitRun(s) + 1
                                           + DigitRun(DropFirst(s, DigitRun(s) + 1))))
         ELSE DurationGroup(s, d, DigitRun(s), 0, DropFirst(s, DigitRun(s)))

ParseDuration(s) ==
    LET signed == s # <<>> /\ s[1] \in {"+", "-"}
        body   == IF signed THEN Tail(s) ELSE s
    IN  IF body = <<"0">> THEN Parsed("", 0)
        ELSE IF body = <<>> THEN Parsed("invalid duration", 0)
        ELSE IF signed /\ s[1] = "-"
             THEN Parsed(DurationGroups(body, 0).err, -DurationGroups(body, 0).val)
             ELSE DurationGroups(body, 0)

-----------------------------------------------------------------------------
(* The process command: its flags, ParseCommandLineOptions, buildFilterOptions,
   GetSpecificMetric and generateOutput.  Texts that are parsed (--start,
   --end, --window) are sequences of characters; the others are strings.
   The rendering of the result as text, JSON or CSV and the writing of the
   output file are outside the model. *)

\* a flag of the command line: given with a value, or left at its default
Given(x) == [given |-> TRUE, v |-> x]
NotGiven(default) == [given |-> FALSE, v |-> default]

\* SetupProcessCommand: every flag at its default
NoArgs ==
    [input |-> NotGiven(""), stream |-> NotGiven(FALSE),
     sample |-> NotGiven(1), max |-> NotGiven(0),
     start |-> NotGiven(<<>>), end |-> NotGiven(<<>>), window |-> NotGiven(<<>>),
     minTemp |-> NotGiven(0),
     voltMin |-> NotGiven(0), voltMax |-> NotGiven(0),
     currMin |-> NotGiven(0), currMax |-> NotGiven(0),
     metric |-> NotGiven("")]

\* the dynamic type of Value.Get() of each numeric flag: FlagSet.Int makes a
\* value whose Get returns an int, FlagSet.Int64 one whose Get returns an int64
GetTypes ==
    [sample |-> "int", max |-> "int", minTemp |-> "int64",
     voltMin |-> "int64", voltMax |-> "int64", currMin |-> "int64", currMax |-> "int64"]

\* CommandLineOptions{...}: the value of each flag, given or default
CommandLineOptions(flags) ==
    [InputFile |-> flags.input.v, UseStreaming |-> flags.stream.v,
     SampleRate |-> flags.sample.v, MaxRecords |-> flags.max.v,
     StartTime |-> flags.start.v, EndTime |-> flags.end.v, TimeWindow |-> flags.window.v,
     MinTemp |-> flags.minTemp.v,
     VoltageMin |-> flags.voltMin.v, VoltageMax |-> flags.voltMax.v,
     CurrentMin |-> flags.currMin.v, CurrentMax |-> flags.currMax.v,
     Metric |-> flags.metric.v]

(* ParseCommandLineOptions: every numeric flag is read as Get().(int64), a
   type assertion that panics when Get returns another type; else the
   CommandLineOptions of the flags. *)
ParseCommandLineOptions(flags) ==
    IF \E f \in DOMAIN GetTypes : GetTypes[f] # "int64"
    THEN [panic |-> TRUE, options |-> CommandLineOptions(NoArgs)]
    ELSE [panic |-> FALSE, options |-> CommandLineOptions(flags)]

\* FilterOptions{}
ZeroFilterOptions ==
    [StartTime |-> NilPtr(ZeroTime), EndTime |-> NilPtr(ZeroTime),
     SampleRate |-> 0, MaxRecords |-> 0,
     TempThreshold |-> NilPtr(0),
     VoltageRange |-> NilPtr(<<0, 0>>), CurrentRange |-> NilPtr(<<0, 0>>)]

\* NewCSVParser: FilterOptions{SampleRate: 1}
NewParserOptions == [ZeroFilterOptions EXCEPT !.SampleRate = 1]

\* 1000 V in microvolts, the bound put in the place of a voltage bound of 0
VoltageLimit == 1000000000

\* the bound put in the place of a current bound of 0: 1_000_000_000_000
\* (1000 A in nanoamperes) in the source, which is beyond the integers of
\* the model checker; the largest of them stands for it, above every
\* current of the rows of the model
CurrentLimit == 2147483647

\* what buildFilterOptions returns
Built(err, filterOptions) == [err |-> err, options |-> filterOptions]

(* The range of a pair of --*-min / --*-max flags: none when both are 0; a
   bound that is 0 while the other is not becomes the limit. *)
RangeOf(min, max, limit) ==
    IF min = 0 /\ max = 0 THEN NilPtr(<<0, 0>>)
    ELSE Ptr(<< IF min = 0 /\ max # 0 THEN -limit ELSE min,
                IF min # 0 /\ max = 0 THEN limit ELSE max >>)

\* buildFilterOptions from "Set temperature threshold if specified" on
ValueFilters(cliOptions, filterOptions) ==
    Built("",
          [filterOptions EXCEPT
             !.TempThreshold =
                 IF cliOptions.MinTemp > 0 THEN Ptr(cliOptions.MinTemp) ELSE @,
             !.VoltageRange =
                 RangeOf(cliOptions.VoltageMin, cliOptions.VoltageMax, VoltageLimit),
             !.CurrentRange =
                 RangeOf(cliOptions.CurrentMin, cliOptions.CurrentMax, CurrentLimit)])

(* buildFilterOptions from "Process time window if specified" on; duration is
   the result of time.ParseDuration(cliOptions.TimeWindow), now the result
   of time.Now(). *)
TimeWindowFilter(cliOptions, now, filterOptions, duration) ==
    IF cliOptions.TimeWindow # <<>> /\ filterOptions.EndTime.nil
    THEN IF duration.err # "" THEN Built("invalid time window", filterOptions)
         ELSE IF ~filterOptions.StartTime.nil
         THEN ValueFilters(cliOptions,
                  [filterOptions EXCEPT !.EndTime = Ptr(filterOptions.StartTime.v + duration.val)])
         ELSE ValueFilters(cliOptions,
                  [filterOptions EXCEPT !.EndTime = Ptr(now),
                                        !.StartTime = Ptr(now - duration.val)])
    ELSE ValueFilters(cliOptions, filterOptions)

\* buildFilterOptions from the --end filter on; endTime is the result of
\* parseTimeString(cliOptions.EndTime)
EndTimeFilter(cliOptions, now, filterOptions, endTime) ==
    IF cliOptions.EndTime = <<>>
    THEN TimeWindowFilter(cliOptions, now, filterOptions,
                          ParseDuration(cliOptions.TimeWindow))
    ELSE IF endTime.err # "" THEN Built("invalid end time", filterOptions)
    ELSE TimeWindowFilter(cliOptions, now,
                          [filterOptions EXCEPT !.EndTime = Ptr(endTime.val)],
                          ParseDuration(cliOptions.TimeWindow))

\* buildFilterOptions from the --start filter on; startTime is the result of
\* parseTimeString(cliOptions.StartTime)
StartTimeFilter(cliOptions, now, filterOptions, startTime) ==
    IF cliOptions.StartTime = <<>>
    THEN EndTimeFilter(cliOptions, now, filterOptions, parseTimeString(cliOptions.EndTime))
    ELSE IF startTime.err # "" THEN Built("invalid start time", filterOptions)
    ELSE EndTimeFilter(cliOptions, now,
                       [filterOptions EXCEPT !.StartTime = Ptr(startTime.val)],
                       parseTimeString(cliOptions.EndTime))

buildFilterOptions(cliOptions, now) ==
    StartTimeFilter(cliOptions, now,
                    [ZeroFilterOptions EXCEPT !.SampleRate = cliOptions.SampleRate,
                                              !.MaxRecords = cliOptions.MaxRecords],
                    parseTimeString(cliOptions.StartTime))

\* the constants of MetricType
MetricTypes ==
    {"total_energy", "average_power", "peak_power", "temperature", "energy_by_hour",
     "voltage_stats", "current_stats", "battery_discharge", "solar_contribution"}

\* what GetSpecificMetric and generateOutput return: the value and the error
Extracted(err, value) == [err |-> err, value |-> value]

\* faulty variant: two cases of the switch with each other's field
GetSpecificMetricCrossed(metrics, metricType) ==
    IF metricType = "total_energy" THEN Extracted("", metrics.TotalJoules) ELSE
    IF metricType = "average_power" THEN Extracted("", metrics.AveragePowerWatts) ELSE
    IF metricType = "peak_power" THEN Extracted("", metrics.PeakPowerWatts) ELSE
    IF metricType = "temperature" THEN Extracted("", metrics.TemperatureStats) ELSE
    IF metricType = "energy_by_hour" THEN Extracted("", metrics.EnergyConsumptionByHour) ELSE
    IF metricType = "voltage_stats" THEN Extracted("", metrics.VoltageStats) ELSE
    IF metricType = "current_stats" THEN Extracted("", metrics.CurrentStats) ELSE
    IF metricType = "battery_discharge" THEN Extracted("", metrics.SolarStats) ELSE
    IF metricType = "solar_contribution" THEN Extracted("", metrics.BatteryStats) ELSE
    Extracted("unknown metric type", 0)

\* GetSpecificMetric: the switch over the metric type
GetSpecificMetric(metrics, metricType) ==
    IF metricType = "total_energy" THEN Extracted("", metrics.TotalJoules) ELSE
    IF metricType = "average_power" THEN Extracted("", metrics.AveragePowerWatts) ELSE
    IF metricType = "peak_power" THEN Extracted("", metrics.PeakPowerWatts) ELSE
    IF metricType = "temperature" THEN Extracted("", metrics.TemperatureStats) ELSE
    IF metricType = "energy_by_hour" THEN Extracted("", metrics.EnergyConsumptionByHour) ELSE
    IF metricType = "voltage_stats" THEN Extracted("", metrics.VoltageStats) ELSE
    IF metricType = "current_stats" THEN Extracted("", metrics.CurrentStats) ELSE
    IF metricType = "battery_discharge" THEN Extracted("", metrics.BatteryStats) ELSE
    IF metricType = "solar_contribution" THEN Extracted("", metrics.SolarStats) ELSE
    Extracted("unknown metric type", 0)

\* generateOutput: the value that is rendered, the requested metric or the
\* whole snapshot
generateOutput(energyMetrics, cliOptions) ==
    IF cliOptions.Metric # ""
    THEN GetSpecificMetric(energyMetrics, cliOptions.Metric)
    ELSE Extracted("", energyMetrics)

-----------------------------------------------------------------------------
(* The configurations and the state machine *)

SampleRates == {1, 2}
LongSampleRates == {1, 2, 3}
MaxRecordsValues == {0, 1}
LongMaxRecordsValues == {0, 1, 2}
EndTimes == {T0 + 2}
TempThresholds == {1}
VoltageRanges == { <<1, 1>> }
CurrentRanges == { <<0, 0>> }

\* FilterOptions as buildFilterOptions leaves them once --start is given
FilterConfigs ==
    { o \in [StartTime     : {Ptr(T0)},
             EndTime       : Optional(EndTimes, ZeroTime),
             SampleRate    : SampleRates,
             MaxRecords    : MaxRecordsValues,
             TempThreshold : Optional(TempThresholds, 0),
             VoltageRange  : Optional(VoltageRanges, <<0, 0>>),
             CurrentRange  : Optional(CurrentRanges, <<0, 0>>)] :
        Cardinality({ f \in {"EndTime", "TempThreshold", "VoltageRange", "CurrentRange"} :
                        ~o[f].nil }) <= 1 }

NotRun == [done |-> FALSE, metrics |-> ZeroMetrics, err |-> ""]

\* the callback of StreamCalculateMetrics: processFunc returns nil on every
\* call (errAt is the number of the call that returns an error, 0 for none)
processFunc == [errAt |-> 0]

\* the activation of ProcessCommand at a position, nothing returned yet
CommandAt(status) ==
    [status |-> status, err |-> "", cause |-> "", output |-> [has |-> FALSE, value |-> 0]]

\* nothing parsed, nothing folded
Idle ==
    /\ parse = ScanInit
    /\ batch = NotRun
    /\ stream = ScanInit
    /\ tracker = newMetricsTracker
    /\ streamed = NotRun

\* no run was made before this one
NoEarlierRun ==
    [has |-> FALSE, options |-> NewParserOptions,
     parse |-> ScanInit, batch |-> NotRun, stream |-> ScanInit, streamed |-> NotRun]

\* the parser and the metrics package used as a library: a parser with the
\* given FilterOptions, no command line
InitWith(files, configs) ==
    /\ earlier = NoEarlierRun
    /\ args = NoArgs
    /\ command = CommandAt("library")
    /\ callback = processFunc
    /\ file \in files
    /\ options \in configs
    /\ Idle

Init == InitWith(Files(Rows, MaxRows), FilterConfigs)

\* longer files of fewer kinds of rows, strides up to 3, caps up to 2
InitLong ==
    InitWith(Files(LongRows, MaxLongRows),
             { [o EXCEPT !.SampleRate = n, !.MaxRecords = m] :
                 o \in FilterConfigs, n \in LongSampleRates, m \in LongMaxRecordsValues })

\* files with rows of a positive current, of positive and of negative time
\* delta, that the current filter drops between the rows it accepts
MaxGapRows == 4
GapRows == { Row(1, 1, 0, 1), Row(1, 1, 1, 1), Row(-1, 1, 1, 1) }

InitGaps == InitWith(Files(GapRows, MaxGapRows), FilterConfigs)

\* a parser given a sample stride of 0 or a negative one
MaxStrideRows == 3
Strides == {0, -1}

InitStride ==
    InitWith(Files(LongRows, MaxStrideRows),
             { [o EXCEPT !.SampleRate = n] : o \in FilterConfigs, n \in Strides })

\* StreamRecords handed a callback that returns an error on one of its
\* first calls
MaxErrAt == 2

InitCallback ==
    /\ earlier = NoEarlierRun
    /\ args = NoArgs
    /\ command = CommandAt("library")
    /\ callback \in [errAt : 1..MaxErrAt]
    /\ file \in Files(LongRows, MaxLongRows)
    /\ options \in FilterConfigs
    /\ Idle

\* the texts of --start, --end and --window: T0, a text no layout parses;
\* T0 + 2 ms; 2 ms, a text with an unknown unit
StartTexts ==
    { <<"1", "9", "7", "0", "-", "0", "1", "-", "0", "1", "T",
        "0", "1", ":", "5", "9", ":", "5", "9", ".", "9", "9", "8">>,
      <<"n", "o", "w">> }
EndTexts ==
    { <<"1", "9", "7", "0", "-", "0", "1", "-", "0", "1", " ",
        "0", "2", ":", "0", "0", ":", "0", "0">> }
WindowTexts == { <<"2", "m", "s">>, <<"2", "x">> }

\* the instants time.Now() returns
Nows == {T0 + 2}

OptionalFlag(S, default) == { NotGiven(default) } \cup { Given(x) : x \in S }

\* --input and --start given, every other flag at its default
BaseArgs ==
    [NoArgs EXCEPT !.input = Given("data.csv"),
                   !.start = Given(CHOOSE t \in StartTexts : parseTimeString(t).err = "")]

(* The command lines: no flag at all; the combinations of --start, --end and
   --window; with --start given, the combinations of --volt-min and
   --volt-max, of --curr-min and --curr-max, --min-temp, --sample, --max; the
   values of --metric with and without --stream. *)
CommandLines ==
    { NoArgs }
    \cup { [NoArgs EXCEPT !.input = Given("data.csv"), !.start = s, !.end = e, !.window = w] :
             s \in OptionalFlag(StartTexts, <<>>), e \in OptionalFlag(EndTexts, <<>>),
             w \in OptionalFlag(WindowTexts, <<>>) }
    \cup { [BaseArgs EXCEPT !.voltMin = a, !.voltMax = b] :
             a \in OptionalFlag({0, 1}, 0), b \in OptionalFlag({0, 1}, 0) }
    \cup { [BaseArgs EXCEPT !.currMin = a, !.currMax = b] :
             a \in OptionalFlag({0, -1}, 0), b \in OptionalFlag({0, 1}, 0) }
    \cup { [BaseArgs EXCEPT !.minTemp = a] : a \in {Given(0), Given(1)} }
    \cup { [BaseArgs EXCEPT !.sample = Given(2)], [BaseArgs EXCEPT !.max = Given(1)] }
    \cup { [BaseArgs EXCEPT !.metric = m, !.stream = st] :
             m \in OptionalFlag(MetricTypes \cup {"", "power", "Total_Energy"}, ""),
             st \in OptionalFlag({TRUE}, FALSE) }

\* the rows of the files of the command: a negative current at temperature
\* 0, a negative voltage, a voltage of 2
MaxCmdRows == 2
CmdRows == { Row(1, 1, 0, 1), Row(1, 1, -1, 0), Row(1, -1, 1, 1), Row(1, 2, 1, 1) }

\* the process command run on a file: entered through main with the flags of
\* the command line, or ProcessCommand called with their CommandLineOptions
InitCmd ==
    /\ earlier = NoEarlierRun
    /\ args \in CommandLines
    /\ command \in {CommandAt("main"), CommandAt("init")}
    /\ callback = processFunc
    /\ file \in Files(CmdRows, MaxCmdRows)
    /\ options = NewParserOptions
    /\ Idle

\* the parser has its FilterOptions
ParserReady == command.status \in {"library", "configured"}

\* the batch path has ended: Parse failed, or CalculateMetrics returned
BatchOver == parse.status = "failed" \/ batch.done

\* Parse up to its loop
ParseEnter ==
    /\ ParserReady
    /\ parse.status = "init"
    /\ parse' = ScanEnter(parse)
    /\ UNCHANGED <<earlier, args, command, callback, file, options,
                   batch, stream, tracker, streamed>>

\* one iteration of the loop of Parse
ParseStep ==
    /\ parse.status = "scanning"
    /\ parse' = ParseIter(parse)
    /\ UNCHANGED <<earlier, args, command, callback, file, options,
                   batch, stream, tracker, streamed>>

\* ProcessCommand, batch mode: CalculateMetrics over the records Parse returned
CalculateMetrics ==
    /\ parse.status = "returned"
    /\ ~batch.done
    /\ batch' = [done |-> TRUE, metrics |-> CalculateMetricsOf(parse.records), err |-> ""]
    /\ UNCHANGED <<earlier, args, command, callback, file, options,
                   parse, stream, tracker, streamed>>

\* StreamCalculateMetrics up to the loop of StreamRecords
StreamEnter ==
    /\ BatchOver
    /\ stream.status = "init"
    /\ tracker' = newMetricsTracker
    /\ stream' = ScanEnter(stream)
    /\ UNCHANGED <<earlier, args, command, callback, file, options, parse, batch, streamed>>

\* the callback returns an error on its n-th call
CallbackFails(n) == callback.errAt = n

\* faulty variant: the callback's error dropped, the scan goes on
AfterCallbackErrGoesOn(it) == [it EXCEPT !.status = "scanning", !.recordCount = @ + 1]

\* if err := callback(record); err != nil { return fmt.Errorf("callback error: ...") }
AfterCallbackErr(it) == [it EXCEPT !.status = "failed", !.err = "callback"]

\* the end of an iteration of StreamRecords that came to `it`: the callback
\* (it folds the record into the tracker unless it returns an error) and
\* recordCount++
StreamCallback(it) ==
    IF it.status # "callback"
    THEN /\ stream' = it
         /\ UNCHANGED tracker
    ELSE IF CallbackFails(it.recordCount + 1)
    THEN /\ stream' = AfterCallbackErr(it)
         /\ UNCHANGED tracker
    ELSE /\ tracker' = processRecord(tracker, it.records[Len(it.records)])
         /\ stream' = [it EXCEPT !.status = "scanning", !.recordCount = @ + 1]

\* one iteration of the loop of StreamRecords, the callback included
StreamStep ==
    /\ stream.status = "scanning"
    /\ StreamCallback(StreamIter(stream))
    /\ UNCHANGED <<earlier, args, command, callback, file, options, parse, batch, streamed>>

\* faulty variant: the partial snapshot returned together with the error
StreamResultPartial(st, mt) ==
    [done |-> TRUE, metrics |-> finalizeMetrics(mt),
     err |-> IF st.status = "failed" THEN st.err ELSE ""]

\* if err != nil { return EnergyMetrics{}, err }; return tracker.finalizeMetrics(), nil
StreamResult(st, mt) ==
    IF st.status = "failed"
    THEN [done |-> TRUE, metrics |-> ZeroMetrics, err |-> st.err]
    ELSE [done |-> TRUE, metrics |-> finalizeMetrics(mt), err |-> ""]

\* StreamCalculateMetrics after StreamRecords returned
StreamReturn ==
    /\ stream.status \in {"returned", "failed"}
    /\ ~streamed.done
    /\ streamed' = StreamResult(stream, tracker)
    /\ tracker' = IF stream.status = "failed" THEN tracker ELSE TrackerAfterFinalize(tracker)
    /\ UNCHANGED <<earlier, args, command, callback, file, options, parse, batch, stream>>

(* The parser of a finished run used again: WithFilterOptions with the
   FilterOptions of the run but the stride 1, then both paths from their
   start; the outcome of the finished run is kept for the comparison. *)
WithFilterOptions ==
    /\ command.status = "library"
    /\ BatchOver /\ streamed.done
    /\ ~earlier.has
    /\ earlier' = [has |-> TRUE, options |-> options,
                   parse |-> parse, batch |-> batch, stream |-> stream, streamed |-> streamed]
    /\ options' = [options EXCEPT !.SampleRate = 1]
    /\ parse' = ScanInit
    /\ batch' = NotRun
    /\ stream' = ScanInit
    /\ tracker' = newMetricsTracker
    /\ streamed' = NotRun
    /\ UNCHANGED <<args, command, callback, file>>

\* main, case "process": ParseCommandLineOptions, then ProcessCommand; a
\* panic ends the program
Main ==
    /\ command.status = "main"
    /\ command' = IF ParseCommandLineOptions(args).panic
                  THEN [command EXCEPT !.status = "panicked"]
                  ELSE [command EXCEPT !.status = "init"]
    /\ UNCHANGED <<earlier, args, callback, file, options, parse, batch, stream, tracker, streamed>>

\* ProcessCommand returns an error
Failed(err, cause) == [command EXCEPT !.status = "failed", !.err = err, !.cause = cause]

\* csvParser.WithFilterOptions(filterOptions), unless buildFilterOptions failed
ConfigureParser(built) ==
    IF built.err # ""
    THEN /\ command' = Failed("error configuring filters", built.err)
         /\ UNCHANGED options
    ELSE /\ command' = [command EXCEPT !.status = "configured"]
         /\ options' = built.options

(* ProcessCommand up to the processing of the data: the input file is named
   (it exists), NewCSVParser, buildFilterOptions, WithFilterOptions.
   GetFileSize and GetRecordCount only print. *)
ProcessEnter ==
    /\ command.status = "init"
    /\ IF CommandLineOptions(args).InputFile = ""
       THEN /\ command' = Failed("input file is required", "")
            /\ UNCHANGED options
       ELSE \E now \in Nows :
               ConfigureParser(buildFilterOptions(CommandLineOptions(args), now))
    /\ UNCHANGED <<earlier, args, callback, file, parse, batch, stream, tracker, streamed>>

\* generateOutput returned
Generated(generated) ==
    IF generated.err # ""
    THEN Failed("failed to generate output", generated.err)
    ELSE [command EXCEPT !.status = "done",
                         !.output = [has |-> TRUE, value |-> generated.value]]

(* ProcessCommand from the result of the branch --stream selects: the error
   of the branch, or generateOutput on its snapshot. *)
ProcessResult(cliOptions) ==
    IF cliOptions.UseStreaming
    THEN IF streamed.err # ""
         THEN Failed("failed to process CSV data in streaming mode", streamed.err)
         ELSE Generated(generateOutput(streamed.metrics, cliOptions))
    ELSE IF parse.status = "failed"
         THEN Failed("failed to parse CSV data", parse.err)
         ELSE Generated(generateOutput(batch.metrics, cliOptions))

\* ProcessCommand after both branches have been run
ProcessReturn ==
    /\ command.status = "configured"
    /\ BatchOver /\ streamed.done
    /\ command' = ProcessResult(CommandLineOptions(args))
    /\ UNCHANGED <<earlier, args, callback, file, options, parse, batch, stream, tracker, streamed>>

Next ==
    \/ ParseEnter
    \/ ParseStep
    \/ CalculateMetrics
    \/ StreamEnter
    \/ StreamStep
    \/ StreamReturn

Spec == Init /\ [][Next]_vars

SpecLong == InitLong /\ [][Next]_vars

SpecCallback == InitCallback /\ [][Next]_vars

SpecGaps == InitGaps /\ [][Next]_vars

\* the steps of a run, and the parser used again with the stride 1
NextStride ==
    \/ ParseEnter
    \/ ParseStep
    \/ CalculateMetrics
    \/ StreamEnter
    \/ StreamStep
    \/ StreamReturn
    \/ WithFilterOptions

SpecStride == InitStride /\ [][NextStride]_vars

\* the steps of the process command around those of the parser and the metrics
NextCmd ==
    \/ Main
    \/ ProcessEnter
    \/ ParseEnter
    \/ ParseStep
    \/ CalculateMetrics
    \/ StreamEnter
    \/ StreamStep
    \/ StreamReturn
    \/ ProcessReturn

SpecCmd == InitCmd /\ [][NextCmd]_vars

-----------------------------------------------------------------------------
(* Vocabulary of the properties *)

\* the exits of a row that was decoded
DecodedExits == {"before", "after", "temp", "volt", "curr", "emit"}

\* a row of exactly four fields, each a base-10 signed integer
WellFormed(row) == Len(row) = 4 /\ \A c \in 1..4 : ParseInt(row[c]).ok

\* the fields of row i of the file by the column order of the data format
DeltaOfRow(i) == ParseInt(file[i][1]).val
VoltageOfRow(i) == ParseInt(file[i][2]).val
CurrentOfRow(i) == ParseInt(file[i][3]).val
TempOfRow(i) == ParseInt(file[i][4]).val

\* the sum of the time deltas of rows 1..n of the file
RECURSIVE SumDeltas(_)
SumDeltas(n) == IF n = 0 THEN 0 ELSE SumDeltas(n - 1) + DeltaOfRow(n)

\* the rows of a scan that took one of the given exits
RowsWithExit(sc, exits) == { i \in 1..Len(sc.trace) : sc.trace[i].exit \in exits }

\* a snapshot with the per-hour mapping taken by content
MetricsView(m) == [m EXCEPT !.EnergyConsumptionByHour = @.kv]

\* every numeric field of a snapshot is zero and the per-hour mapping has no entry
NumericZero(m) == MetricsView(m) = MetricsView(ZeroMetrics)

\* both paths have ended
BothOver == BatchOver /\ streamed.done

-----------------------------------------------------------------------------
(* C1: for every file and every configuration the batch path and the
   streaming path end in the same outcome: both fail, or both succeed with
   the same EnergyMetrics (the per-hour mapping compared by content).
   The code violates it: with MaxRecords reached, StreamRecords reads on and
   fails on a reader error that Parse never sees. *)
C1_BatchEqualsStream ==
    BothOver =>
        /\ (parse.status = "failed") <=> (streamed.err # "")
        /\ (batch.done /\ streamed.err = "")
               => MetricsView(batch.metrics) = MetricsView(streamed.metrics)

(* C2: every row read before the scan ends that is not well-formed makes the
   run fail, at any stride.  The code violates it: a row the sampling gate
   discards is never decoded. *)
C2_MalformedRowFails ==
    \A sc \in {parse, stream} :
        sc.status = "returned" => \A i \in 1..sc.pos : WellFormed(file[i])

(* C3: the timestamp of every emitted record is start_time plus the sum of
   the time deltas of all rows read up to and including it, the rows
   discarded by the sampling gate included.  The code violates it: a row
   discarded by the sampling gate adds nothing to the accumulated time. *)
C3_TimestampCountsAllRows ==
    \A sc \in {parse, stream} :
        \A i \in RowsWithExit(sc, {"emit"}) :
            (\A j \in 1..i : WellFormed(file[j]))
                => sc.trace[i].record.Timestamp = options.StartTime.v + SumDeltas(i)

(* C4: with stride N >= 1 the rows that pass the sampling gate are exactly
   the rows at positions N, 2N, 3N, ... of the rows read, whatever the time
   window and the value filters do with the rows kept; with N = 1 every row
   passes.  (A row on which the reader itself fails never reaches the gate.) *)
C4_SamplingIsPositional ==
    \A sc \in {parse, stream} :
        \A i \in 1..Len(sc.trace) :
            sc.trace[i].exit # "read"
                => (sc.trace[i].exit # "sampled" <=> i % options.SampleRate = 0)

\* stride 2, four rows read: row 2 kept and dropped by the voltage filter,
\* row 4 kept and emitted, rows 1 and 3 discarded
C4_Witness ==
    /\ options.SampleRate = 2
    /\ Len(stream.trace) = 4
    /\ stream.trace[1].exit = "sampled"
    /\ stream.trace[2].exit = "volt"
    /\ stream.trace[3].exit = "sampled"
    /\ stream.trace[4].exit = "emit"

(* C5: with stride 1, after any prefix of the rows has been processed the
   accumulated time is the sum of the time deltas of that prefix, however
   many of its rows the value filters dropped. *)
C5_AccumulatedTimeIsPrefixSum ==
    options.SampleRate = 1 =>
        \A sc \in {parse, stream} :
            LET k == Cardinality(RowsWithExit(sc, DecodedExits)) IN
            /\ RowsWithExit(sc, DecodedExits) = 1..k
            /\ sc.accumulatedTimeMs = SumDeltas(k)

\* three rows processed, two of them dropped by a value filter
C5_Witness ==
    /\ options.SampleRate = 1
    /\ Len(stream.trace) = 3
    /\ Cardinality(RowsWithExit(stream, {"temp", "volt", "curr"})) = 2
    /\ stream.accumulatedTimeMs = 3
    /\ Len(parse.trace) = 3

(* C6: a decoded row whose timestamp is after the end bound ends the scan:
   it is the last row read, it is not emitted, and the scan has returned, in
   both modes. *)
C6_EndBoundTerminates ==
    \A sc \in {parse, stream} :
        \A i \in RowsWithExit(sc, DecodedExits) :
            (~options.EndTime.nil /\ sc.trace[i].record.Timestamp > options.EndTime.v)
                => /\ i = Len(sc.trace)
                   /\ sc.trace[i].exit # "emit"
                   /\ sc.status = "returned"

\* the row after the one that ended the scan has a negative delta that would
\* bring the timestamp back inside the window; both paths have ended
C6_Witness ==
    /\ BothOver
    /\ ~options.EndTime.nil
    /\ \E i \in 1..(Len(file) - 1) :
          /\ i = Len(stream.trace) /\ i = Len(parse.trace)
          /\ stream.trace[i].exit = "after"
          /\ parse.trace[i].exit = "after"
          /\ WellFormed(file[i + 1])
          /\ DeltaOfRow(i + 1) < 0
          /\ stream.trace[i].record.Timestamp + DeltaOfRow(i + 1) <= options.EndTime.v
          /\ stream.trace[i].record.Timestamp + DeltaOfRow(i + 1) >= options.StartTime.v

(* C7: with a maximum M > 0, once M records are accepted the scan stops in
   both modes: the M-th accepted row is the last row read, at most M records
   are emitted and the run does not fail on what follows.  The code violates
   it in streaming mode: StreamRecords reads the next rows and fails when the
   reader reports an error on one of them. *)
C7_CapStopsScan ==
    \A sc \in {parse, stream} :
        (options.MaxRecords > 0 /\ sc.recordCount >= options.MaxRecords)
            => /\ sc.recordCount = options.MaxRecords
               /\ sc.status # "failed"
               /\ sc.trace[Len(sc.trace)].exit = "emit"

(* C8: a row that passed decoding, sampling and the time window is emitted
   if and only if its temperature is >= the threshold (when set), its voltage
   is within the inclusive range (when set) and its current is within the
   inclusive range (when set); a row dropped by a value filter does not end
   the scan. *)
C8_ValueFiltersInclusive ==
    \A sc \in {parse, stream} :
        \A i \in RowsWithExit(sc, {"temp", "volt", "curr", "emit"}) :
            /\ sc.trace[i].exit = "emit" <=>
                  /\ options.TempThreshold.nil \/ TempOfRow(i) >= options.TempThreshold.v
                  /\ \/ options.VoltageRange.nil
                     \/ /\ options.VoltageRange.v[1] <= VoltageOfRow(i)
                        /\ VoltageOfRow(i) <= options.VoltageRange.v[2]
                  /\ \/ options.CurrentRange.nil
                     \/ /\ options.CurrentRange.v[1] <= CurrentOfRow(i)
                        /\ CurrentOfRow(i) <= options.CurrentRange.v[2]
            /\ (sc.trace[i].exit # "emit" /\ i = Len(sc.trace))
                  => \/ sc.status = "scanning"
                     \/ sc.status = "returned" /\ sc.pos = Len(file)

\* a voltage range is set; a row one unit below it and a row one unit above
\* it were dropped, and the scan went on to emit a row equal to the bound
C8_Witness ==
    /\ ~options.VoltageRange.nil
    /\ Len(stream.trace) = 3
    /\ \E i, j \in 1..2 :
          /\ stream.trace[i].exit = "volt"
          /\ VoltageOfRow(i) = options.VoltageRange.v[1] - 1
          /\ stream.trace[j].exit = "volt"
          /\ VoltageOfRow(j) = options.VoltageRange.v[2] + 1
    /\ stream.trace[3].exit = "emit"
    /\ VoltageOfRow(3) = options.VoltageRange.v[1]
    /\ Len(stream.records) = 1

(* C9: when the scan ends normally with zero accepted records, both paths
   return without error a snapshot with DataPoints = 0 and every numeric
   field zero: the minima and maxima are 0, not the initial sentinels. *)
C9_ZeroRecordSnapshot ==
    /\ (batch.done /\ Len(parse.records) = 0)
           => batch.err = "" /\ NumericZero(batch.metrics)
    /\ (streamed.done /\ stream.status = "returned" /\ Len(stream.records) = 0)
           => streamed.err = "" /\ NumericZero(streamed.metrics)

\* a file of two or more rows read to its end, one row discarded by sampling
\* and one dropped by a filter, nothing accepted, both snapshots returned
C9_Witness ==
    /\ batch.done /\ streamed.done
    /\ Len(parse.records) = 0 /\ Len(stream.records) = 0
    /\ stream.pos = Len(file) /\ Len(file) >= 2
    /\ RowsWithExit(stream, {"sampled"}) # {}
    /\ RowsWithExit(stream, {"before", "temp", "volt", "curr"}) # {}
    /\ streamed.metrics.DataPoints = 0
    /\ streamed.metrics.TemperatureStats.Min = 0

(* C10: a decode error (a wrong field count, from the reader or from the
   row-shape check, or a field that is no integer) returns no partial result:
   Parse returns no records and CalculateMetrics never runs,
   StreamCalculateMetrics returns the all-zero snapshot with the error, and
   the failing row is the last row read. *)
C10_NoPartialResult ==
    /\ \A sc \in {parse, stream} :
          (sc.status = "failed" /\ sc.err \in ErrorKinds \cup {"read"})
              => /\ sc.pos = Len(sc.trace)
                 /\ sc.trace[Len(sc.trace)].exit = sc.err
    /\ parse.status = "failed" => parse.records = <<>> /\ ~batch.done
    /\ (stream.status = "failed" /\ streamed.done)
          => streamed.metrics = ZeroMetrics /\ streamed.err = stream.err

\* the streaming path failed on a decode error after a record had been folded
C10_Witness ==
    /\ streamed.done
    /\ stream.status = "failed"
    /\ stream.err \in ErrorKinds
    /\ tracker.dataPoints >= 1
    /\ parse.status = "failed"
    /\ Len(parse.trace) >= 2

-----------------------------------------------------------------------------
(* Vocabulary of the properties of the fold *)

\* the sum of TimeDeltaMs of records[k..n]
RECURSIVE SumTimeDeltaMs(_, _, _)
SumTimeDeltaMs(records, k, n) ==
    IF k > n THEN 0 ELSE records[k].TimeDeltaMs + SumTimeDeltaMs(records, k + 1, n)

\* a step of the streaming path that folds one more record after the first
LaterFold == tracker.dataPoints >= 1 /\ tracker'.dataPoints = tracker.dataPoints + 1

\* the energy of a record: |voltage| x current x its own time delta
EnergyOf(r) == Abs(r.VoltageMicroV) * r.CurrentNanoA * r.TimeDeltaMs

(* C14: finalizeMetrics is a pure function of the accumulators: the step
   that takes the snapshot leaves every accumulator field as it was, and a
   second call on the tracker as the first call left it returns the
   snapshot the first call returned. *)
C14_FinalizeIsPure ==
    [][(~streamed.done /\ streamed'.done /\ streamed'.err = "")
          => /\ tracker' = tracker
             /\ finalizeMetrics(tracker') = streamed'.metrics]_vars

\* a snapshot taken of a tracker that folded two records or more
C14_Witness ==
    /\ streamed.done /\ streamed.err = ""
    /\ tracker.dataPoints >= 2
    /\ tracker.totalDurationMs # 0
    /\ streamed.metrics.DataPoints = tracker.dataPoints

(* C19: the first folded record adds nothing to the total energy, the total
   duration, the per-hour mapping or the charge and discharge accumulators;
   after any sequence of folds the total duration is the sum of TimeDeltaMs
   of the folded records except the first, in both modes (not the
   difference of their timestamps). *)
C19_FirstFoldIntegratesNothing ==
    LET n == tracker.dataPoints IN
    /\ n <= Len(stream.records)
    /\ n = 1 => /\ tracker.totalJoules = 0 /\ tracker.totalDurationMs = 0
                /\ tracker.totalPower = 0
                /\ tracker.energyByHour = EmptyMap
                /\ tracker.totalDischargeTime = 0 /\ tracker.totalChargeTime = 0
                /\ tracker.totalDischargeEnergy = 0 /\ tracker.totalChargeEnergy = 0
    /\ tracker.totalDurationMs = SumTimeDeltaMs(stream.records, 2, n)
    /\ batch.done =>
          batch.metrics.DurationSeconds = SumTimeDeltaMs(parse.records, 2, Len(parse.records))

\* two records folded with a dropped row between them: the timestamps are
\* further apart than the time delta of the second record, which is what
\* the total duration holds
C19_Witness ==
    /\ tracker.dataPoints = 2
    /\ stream.records[1].TimeDeltaMs # 0
    /\ stream.records[2].Timestamp - stream.records[1].Timestamp
           # stream.records[2].TimeDeltaMs
    /\ tracker.totalDurationMs = stream.records[2].TimeDeltaMs
    /\ batch.done /\ batch.metrics.DurationSeconds = tracker.totalDurationMs

(* C20: every fold after the first adds the time delta and the energy of
   its record to exactly one side: to the discharge time and the discharge
   energy (as |energy|) if and only if the current is negative, otherwise
   (current positive or zero) to the charge time and the charge energy; the
   other side is unchanged by that fold. *)
C20_OneSidePerFold ==
    [][LaterFold =>
         LET r == stream'.records[tracker'.dataPoints] IN
         IF r.CurrentNanoA < 0
         THEN /\ tracker'.totalDischargeTime = tracker.totalDischargeTime + r.TimeDeltaMs
              /\ tracker'.totalDischargeEnergy
                     = tracker.totalDischargeEnergy + Abs(EnergyOf(r))
              /\ tracker'.totalChargeTime = tracker.totalChargeTime
              /\ tracker'.totalChargeEnergy = tracker.totalChargeEnergy
         ELSE /\ tracker'.totalChargeTime = tracker.totalChargeTime + r.TimeDeltaMs
              /\ tracker'.totalChargeEnergy = tracker.totalChargeEnergy + EnergyOf(r)
              /\ tracker'.totalDischargeTime = tracker.totalDischargeTime
              /\ tracker'.totalDischargeEnergy = tracker.totalDischargeEnergy]_vars

\* three records folded: after the first, one of zero current and one of
\* negative current, each on its side
C20_Witness ==
    /\ tracker.dataPoints = 3
    /\ \E i, j \in 2..3 :
          /\ stream.records[i].CurrentNanoA = 0
          /\ stream.records[j].CurrentNanoA < 0
          /\ tracker.totalChargeTime = stream.records[i].TimeDeltaMs
          /\ tracker.totalDischargeTime = stream.records[j].TimeDeltaMs
    /\ tracker.totalDischargeEnergy > 0

-----------------------------------------------------------------------------
(* Vocabulary of the properties of the gates *)

\* the row took an exit after the time window: it passed the window
PassedWindow(exit) == exit \in {"temp", "volt", "curr", "emit"}

\* the last row read did not end the scan: it goes on, or the file is at its end
ScanGoesOn(sc) ==
    sc.status \in {"scanning", "callback"} \/ (sc.status = "returned" /\ sc.pos = Len(file))

\* a row before the start is dropped and the scan continues; a row at the
\* start instant passes the window
LowerBound(sc, i) ==
    LET ts == sc.trace[i].record.Timestamp IN
    /\ ts = options.StartTime.v => sc.trace[i].exit # "before"
    /\ ts < options.StartTime.v
          => /\ sc.trace[i].exit = "before"
             /\ i = Len(sc.trace) => ScanGoesOn(sc)

(* C15 as stated: the window is inclusive at its lower bound and exclusive at
   its upper bound: a row at the start instant passes, a row before it is
   dropped and the scan continues, a row at the end instant is not emitted.
   The code emits a row at the end instant: only timestamp.After(end) ends
   the scan. *)
C15_WindowUpperExclusive ==
    \A sc \in {parse, stream} :
        \A i \in RowsWithExit(sc, DecodedExits) :
            /\ LowerBound(sc, i)
            /\ (~options.EndTime.nil /\ sc.trace[i].record.Timestamp = options.EndTime.v)
                  => sc.trace[i].exit # "emit"

(* C15 as amended: the window is inclusive at both bounds: a row at the start
   instant passes, a row before it is dropped and the scan continues, a row
   at the end instant passes the window; only a row strictly after the end
   is not emitted (it ends the scan). *)
C15_WindowInclusive ==
    \A sc \in {parse, stream} :
        \A i \in RowsWithExit(sc, DecodedExits) :
            LET ts == sc.trace[i].record.Timestamp IN
            /\ LowerBound(sc, i)
            /\ (~options.EndTime.nil /\ ts >= options.StartTime.v)
                  => /\ ts <= options.EndTime.v => PassedWindow(sc.trace[i].exit)
                     /\ ts > options.EndTime.v => sc.trace[i].exit = "after"

\* a row before the start dropped, then a row at the start instant and a row
\* at the end instant emitted
C15_Witness ==
    /\ ~options.EndTime.nil
    /\ Len(stream.trace) = 3
    /\ stream.trace[1].exit = "before"
    /\ stream.trace[2].exit = "emit"
    /\ stream.trace[2].record.Timestamp = options.StartTime.v
    /\ stream.trace[3].exit = "emit"
    /\ stream.trace[3].record.Timestamp = options.EndTime.v
    /\ Len(parse.records) = 2

(* C16: the decoder assigns the four fields of a row by position as
   [time delta, voltage, current, temperature], and each value filter tests
   the field assigned that way: the temperature threshold field 4 of 4, the
   voltage range field 2, the current range field 3. *)
C16_FieldsByPosition ==
    \A sc \in {parse, stream} :
        \A i \in RowsWithExit(sc, DecodedExits) :
            LET r == sc.trace[i].record
                exit == sc.trace[i].exit
            IN
            /\ r.TimeDeltaMs = DeltaOfRow(i)
            /\ r.VoltageMicroV = VoltageOfRow(i)
            /\ r.CurrentNanoA = CurrentOfRow(i)
            /\ r.TempMiliCelsius = TempOfRow(i)
            /\ exit = "temp" => TempOfRow(i) < options.TempThreshold.v
            /\ exit = "volt" => \/ VoltageOfRow(i) < options.VoltageRange.v[1]
                                \/ VoltageOfRow(i) > options.VoltageRange.v[2]
            /\ exit = "curr" => \/ CurrentOfRow(i) < options.CurrentRange.v[1]
                                \/ CurrentOfRow(i) > options.CurrentRange.v[2]

\* a voltage range is set: a row whose current is inside it and whose
\* voltage is not was dropped, a row whose voltage is inside it and whose
\* current is not was emitted
C16_Witness ==
    /\ ~options.VoltageRange.nil
    /\ \E i, j \in 1..Len(stream.trace) :
          /\ stream.trace[i].exit = "volt"
          /\ CurrentOfRow(i) >= options.VoltageRange.v[1]
          /\ CurrentOfRow(i) <= options.VoltageRange.v[2]
          /\ stream.trace[j].exit = "emit"
          /\ CurrentOfRow(j) < options.VoltageRange.v[1]
          /\ stream.trace[j].record.VoltageMicroV # stream.trace[j].record.CurrentNanoA
    /\ Len(parse.records) >= 1

-----------------------------------------------------------------------------
(* Vocabulary of the properties of the command *)

\* the command line as ProcessCommand gets it
Cli == CommandLineOptions(args)

\* the field of a snapshot that each metric name stands for
MetricFields(m) ==
    [total_energy |-> m.TotalJoules,
     average_power |-> m.AveragePowerWatts,
     peak_power |-> m.PeakPowerWatts,
     temperature |-> m.TemperatureStats,
     energy_by_hour |-> m.EnergyConsumptionByHour,
     voltage_stats |-> m.VoltageStats,
     current_stats |-> m.CurrentStats,
     battery_discharge |-> m.BatteryStats,
     solar_contribution |-> m.SolarStats]

\* the branch of the command that --stream selects ended without an error
BranchSucceeded ==
    IF Cli.UseStreaming THEN streamed.done /\ streamed.err = "" ELSE batch.done

\* the snapshot of the branch that --stream selects
BranchMetrics == IF Cli.UseStreaming THEN streamed.metrics ELSE batch.metrics

\* a step in which generateOutput runs with a metric requested
ExtractionStep ==
    /\ command.status = "configured" /\ command'.status # "configured"
    /\ BranchSucceeded
    /\ Cli.Metric # ""

(* C11: when no start time is configured, Parse and StreamRecords fail with
   the missing-start-time error before any row is read: no row is consumed,
   no record is returned, the callback is never invoked. *)
C11_MissingStartTime ==
    (ParserReady /\ options.StartTime.nil) =>
        /\ \A sc \in {parse, stream} :
              /\ sc.status \in {"init", "failed"}
              /\ sc.status = "failed" => sc.err = "start time"
              /\ sc.pos = 0 /\ sc.trace = <<>> /\ sc.records = <<>>
        /\ tracker = newMetricsTracker
        /\ ~batch.done
        /\ streamed.done => streamed.err = "start time" /\ streamed.metrics = ZeroMetrics

\* a file with rows, no start time: both scans have failed
C11_Witness ==
    /\ ParserReady /\ options.StartTime.nil
    /\ Len(file) >= 1
    /\ parse.status = "failed" /\ parse.err = "start time"
    /\ stream.status = "failed"
    /\ streamed.done

(* C12: in streaming mode, when the callback returns an error for a record,
   StreamRecords returns an error at once: no further row is read, the
   callback is not invoked again, and StreamCalculateMetrics returns the
   error with an empty snapshot. *)
C12_CallbackErrorAborts ==
    (callback.errAt >= 1 /\ Len(stream.records) >= callback.errAt) =>
        /\ stream.status = "failed" /\ stream.err = "callback"
        /\ Len(stream.records) = callback.errAt
        /\ stream.recordCount = callback.errAt - 1
        /\ tracker.dataPoints = callback.errAt - 1
        /\ stream.pos = Len(stream.trace)
        /\ stream.trace[Len(stream.trace)].exit = "emit"
        /\ streamed.done => streamed.err = "callback" /\ streamed.metrics = ZeroMetrics

\* the callback failed on its second call with rows left in the file; one
\* record had been folded
C12_Witness ==
    /\ callback.errAt = 2
    /\ stream.err = "callback"
    /\ streamed.done
    /\ stream.pos < Len(file)
    /\ tracker.dataPoints = 1
    /\ WellFormed(file[stream.pos + 1])

(* C13: GetSpecificMetric succeeds for exactly the nine metric names and
   returns the field of the snapshot the name stands for; every other name
   fails with the unknown-metric error, and the step leaves the computed
   snapshots unchanged. *)
C13_MetricExtraction ==
    [][ExtractionStep =>
          /\ command'.status = "done" <=> Cli.Metric \in DOMAIN MetricFields(BranchMetrics)
          /\ command'.status = "done"
                => /\ command'.output.has
                   /\ command'.output.value = MetricFields(BranchMetrics)[Cli.Metric]
          /\ command'.status # "done"
                => /\ command'.status = "failed"
                   /\ command'.cause = "unknown metric type"
                   /\ ~command'.output.has
          /\ batch' = batch /\ streamed' = streamed /\ tracker' = tracker]_vars

\* a name that differs from a metric name only by case was refused after
\* the snapshot of two records was computed
C13_Witness ==
    /\ command.status = "failed"
    /\ command.cause = "unknown metric type"
    /\ args.metric.v = "Total_Energy"
    /\ batch.done /\ batch.metrics.DataPoints = 2
    /\ streamed.done /\ streamed.metrics.DataPoints = 2

(* C17: the process command requires --start: whenever --start is not given
   the command fails, with the start-time error when it got as far as the
   scan, and computes no metrics, whatever the other options are.  The code
   violates it: with --window and without --start and --end,
   buildFilterOptions takes the clock as the end and the clock minus the
   window as the start, and the command runs. *)
C17_StartRequired ==
    ~args.start.given =>
        /\ command.status # "done"
        /\ ~batch.done
        /\ tracker.dataPoints = 0
        /\ \A sc \in {parse, stream} : sc.status = "failed" => sc.err = "start time"
        /\ streamed.done => streamed.err = "start time"

(* C18: when only a minimum is given (--volt-min or --curr-min) a row passes
   that filter if and only if its value is >= the minimum; when only a
   maximum is given (--volt-max or --curr-max), if and only if its value is
   <= the maximum.  The code violates it: a bound given as 0 is taken as
   not given. *)
C18_OpenRanges ==
    \A sc \in {parse, stream} :
        /\ \A i \in RowsWithExit(sc, {"volt", "curr", "emit"}) :
              /\ (args.voltMin.given /\ ~args.voltMax.given)
                    => (sc.trace[i].exit # "volt" <=> VoltageOfRow(i) >= args.voltMin.v)
              /\ (~args.voltMin.given /\ args.voltMax.given)
                    => (sc.trace[i].exit # "volt" <=> VoltageOfRow(i) <= args.voltMax.v)
        /\ \A i \in RowsWithExit(sc, {"curr", "emit"}) :
              /\ (args.currMin.given /\ ~args.currMax.given)
                    => (sc.trace[i].exit # "curr" <=> CurrentOfRow(i) >= args.currMin.v)
              /\ (~args.currMin.given /\ args.currMax.given)
                    => (sc.trace[i].exit # "curr" <=> CurrentOfRow(i) <= args.currMax.v)

-----------------------------------------------------------------------------
(* Vocabulary of the properties of the snapshot *)

\* the first and the last row of a scan that was emitted
FirstEmit(sc) ==
    CHOOSE i \in RowsWithExit(sc, {"emit"}) : \A j \in RowsWithExit(sc, {"emit"}) : i <= j
LastEmit(sc) ==
    CHOOSE i \in RowsWithExit(sc, {"emit"}) : \A j \in RowsWithExit(sc, {"emit"}) : i >= j

\* the decoded rows between the first and the last emitted row that a filter
\* (the start bound or a value filter) dropped
DroppedBetween(sc) ==
    IF RowsWithExit(sc, {"emit"}) = {} THEN {}
    ELSE { i \in RowsWithExit(sc, ContinueKinds) : FirstEmit(sc) < i /\ i < LastEmit(sc) }

\* the sum of the time deltas of a set of rows of the file
RECURSIVE SumDeltasOf(_)
SumDeltasOf(S) ==
    IF S = {} THEN 0
    ELSE LET i == CHOOSE j \in S : TRUE IN DeltaOfRow(i) + SumDeltasOf(S \ {i})

\* TimeRange.EndTime minus TimeRange.StartTime of a snapshot
TimeRangeSpan(m) == m.TimeRange.EndTime - m.TimeRange.StartTime

\* the snapshots that were returned without an error, each with its scan
Snapshots ==
    (IF batch.done THEN { [scan |-> parse, metrics |-> batch.metrics] } ELSE {})
    \cup (IF streamed.done /\ streamed.err = ""
          THEN { [scan |-> stream, metrics |-> streamed.metrics] } ELSE {})

(* C21 as stated: the duration equals TimeRange.EndTime minus
   TimeRange.StartTime when no decoded row between the first and the last
   accepted record was dropped by a filter, and it is smaller than that
   difference when a dropped row with a positive time delta lies between
   them. *)
C21_DurationVsTimeRange ==
    \A s \in Snapshots :
        /\ DroppedBetween(s.scan) = {}
              => s.metrics.DurationSeconds = TimeRangeSpan(s.metrics)
        /\ (\E i \in DroppedBetween(s.scan) : DeltaOfRow(i) > 0)
              => s.metrics.DurationSeconds < TimeRangeSpan(s.metrics)

(* C21: the reported duration is the sum of the integrated time deltas and
   not a timestamp subtraction: it is TimeRange.EndTime minus
   TimeRange.StartTime less the sum of the time deltas of the decoded rows
   that a filter dropped between the first and the last accepted record; it
   equals that difference when no such row was dropped and is smaller than
   it when the time deltas of the dropped rows sum to a positive value. *)
C21_DurationIsIntegratedTime ==
    \A s \in Snapshots :
        /\ s.metrics.DurationSeconds
               = TimeRangeSpan(s.metrics) - SumDeltasOf(DroppedBetween(s.scan))
        /\ DroppedBetween(s.scan) = {}
              => s.metrics.DurationSeconds = TimeRangeSpan(s.metrics)
        /\ SumDeltasOf(DroppedBetween(s.scan)) > 0
              => s.metrics.DurationSeconds < TimeRangeSpan(s.metrics)

\* both snapshots of a file in which a row of positive time delta was
\* dropped between two accepted rows: the duration is the time delta of the
\* last row, the time range is longer by that of the dropped row
C21_Witness ==
    /\ batch.done /\ streamed.done /\ streamed.err = ""
    /\ \E i \in DroppedBetween(stream) : DeltaOfRow(i) > 0
    /\ DroppedBetween(parse) = DroppedBetween(stream)
    /\ SumDeltasOf(DroppedBetween(stream)) > 0
    /\ streamed.metrics.DurationSeconds > 0
    /\ streamed.metrics.DurationSeconds < TimeRangeSpan(streamed.metrics)
    /\ batch.metrics.DurationSeconds < TimeRangeSpan(batch.metrics)

-----------------------------------------------------------------------------
(* Vocabulary of the order of the gates *)

\* the scans before and after a step
ScanSteps == { <<parse, parse'>>, <<stream, stream'>> }

\* a step that reads a row at a position the stride does not keep
ReadsOffStride(before, after) ==
    /\ Len(after.trace) = Len(before.trace) + 1
    /\ after.trace[Len(after.trace)].exit # "read"
    /\ Len(after.trace) % options.SampleRate # 0

\* the number of rows of a scan that passed every gate
Emitted(sc) == Cardinality(RowsWithExit(sc, {"emit"}))

(* C22: the sampling gate comes before the time window and the value
   filters: a row at a position the stride does not keep is discarded by
   sampling whatever its fields are, it is given no timestamp (the
   accumulated time stays), it does not end the scan and no count moves; the
   counts that the cap is compared with are the number of rows that passed
   every gate, and a scan that stops at the cap has emitted exactly the cap. *)
C22_SamplingGateFirst ==
    /\ [][\A st \in ScanSteps :
            ReadsOffStride(st[1], st[2]) =>
                /\ st[2].trace[Len(st[2].trace)] = Entry("sampled", ZeroRecord)
                /\ st[2].status = "scanning"
                /\ st[2].accumulatedTimeMs = st[1].accumulatedTimeMs
                /\ st[2].recordCount = st[1].recordCount
                /\ st[2].records = st[1].records]_vars
    /\ [](\A sc \in {parse, stream} :
            /\ sc.recordCount = Emitted(sc)
            /\ sc.status # "failed" => Len(sc.records) = Emitted(sc)
            /\ options.MaxRecords > 0 => Emitted(sc) <= options.MaxRecords
            /\ (sc.trace # <<>> /\ sc.trace[Len(sc.trace)].exit = "cap")
                  => Emitted(sc) = options.MaxRecords)

\* stride 2 and an end bound: the third row, discarded by sampling, would
\* have had a timestamp after the end bound (by the accumulated time and by
\* the deltas of all rows); the scan went on to the end of the file
C22_Witness ==
    /\ options.SampleRate = 2 /\ ~options.EndTime.nil
    /\ Len(file) = 3 /\ WellFormed(file[3])
    /\ \A sc \in {parse, stream} :
          /\ Len(sc.trace) = 3
          /\ sc.trace[1].exit = "sampled"
          /\ sc.trace[2].exit = "emit"
          /\ sc.trace[3].exit = "sampled"
          /\ sc.trace[2].record.Timestamp + DeltaOfRow(3) > options.EndTime.v
          /\ options.StartTime.v + SumDeltas(3) > options.EndTime.v
          /\ sc.status = "returned" /\ sc.pos = 3
          /\ sc.recordCount = 1

-----------------------------------------------------------------------------
(* Vocabulary of the order of the records *)

\* the records of the rows 1..n of a scan that were emitted, in row order
RECURSIVE EmittedRecords(_, _)
EmittedRecords(sc, n) ==
    IF n = 0 THEN <<>>
    ELSE IF sc.trace[n].exit = "emit"
         THEN Append(EmittedRecords(sc, n - 1), sc.trace[n].record)
         ELSE EmittedRecords(sc, n - 1)

\* the record carries the fields of row i of the file
IsRecordOfRow(record, i) ==
    /\ record.TimeDeltaMs = DeltaOfRow(i)
    /\ record.VoltageMicroV = VoltageOfRow(i)
    /\ record.CurrentNanoA = CurrentOfRow(i)
    /\ record.TempMiliCelsius = TempOfRow(i)

\* the previous record an aggregator holds after it folded the records
HoldsLastOf(prevRecord, records) ==
    IF records = <<>> THEN prevRecord.nil
    ELSE prevRecord = Ptr(records[Len(records)])

(* C23: in streaming mode the records handed to the callback are the
   records of the emitted rows, each once, in row order, and every one of
   them is folded before the next row is read; in both modes the emitted
   records are those of a subsequence of the rows of the file, in file
   order; the aggregator holds one earlier record only, the one it folded
   last. *)
C23_OnceInOrder ==
    /\ stream.records = EmittedRecords(stream, Len(stream.trace))
    /\ tracker.dataPoints = Len(stream.records)
    /\ HoldsLastOf(tracker.prevRecord, stream.records)
    /\ parse.status # "failed" => parse.records = EmittedRecords(parse, Len(parse.trace))
    /\ \A sc \in {parse, stream} :
          \A i \in RowsWithExit(sc, {"emit"}) : IsRecordOfRow(sc.trace[i].record, i)
    /\ (batch.done /\ stream.status = "init")
          => HoldsLastOf(FoldRecords(newMetricsTracker, parse.records).prevRecord,
                         parse.records)

\* rows 1 and 3 of a file were emitted, row 2 was dropped between them: the
\* callback got the two records in that order and the tracker holds the second
C23_Witness ==
    /\ batch.done /\ streamed.done
    /\ Len(stream.trace) = 3
    /\ stream.trace[1].exit = "emit"
    /\ stream.trace[2].exit \in ContinueKinds
    /\ stream.trace[3].exit = "emit"
    /\ stream.records = <<stream.trace[1].record, stream.trace[3].record>>
    /\ stream.records[1] # stream.records[2]
    /\ tracker.prevRecord = Ptr(stream.trace[3].record)
    /\ parse.records = stream.records

-----------------------------------------------------------------------------
(* Vocabulary of the peak power *)

\* |voltage| x |current| of a record
PowerMagnitude(r) == Abs(r.VoltageMicroV) * Abs(r.CurrentNanoA)

\* the largest PowerMagnitude among records[1..n], 0 when n = 0
RECURSIVE MaxPower(_, _)
MaxPower(records, n) ==
    IF n = 0 THEN 0
    ELSE IF PowerMagnitude(records[n]) > MaxPower(records, n - 1)
         THEN PowerMagnitude(records[n]) ELSE MaxPower(records, n - 1)

(* C24: the peak power is the maximum of |voltage| x |current| over all
   accepted records, the first one included, in the tracker after every fold
   and in both snapshots; it is never negative, and no fold lowers it. *)
C24_PeakPower ==
    /\ [](/\ tracker.peakPower = MaxPower(stream.records, tracker.dataPoints)
          /\ tracker.peakPower >= 0
          /\ (streamed.done /\ streamed.err = "")
                => streamed.metrics.PeakPowerWatts = MaxPower(stream.records, Len(stream.records))
          /\ batch.done
                => batch.metrics.PeakPowerWatts = MaxPower(parse.records, Len(parse.records)))
    /\ [][tracker'.dataPoints > tracker.dataPoints
             => tracker'.peakPower >= tracker.peakPower]_vars

\* the first of two accepted records has the larger power, the second a
\* negative current: the peak is the power of the first
C24_Witness ==
    /\ batch.done /\ streamed.done
    /\ tracker.dataPoints = 2
    /\ stream.records[2].CurrentNanoA < 0
    /\ PowerMagnitude(stream.records[2]) > 0
    /\ PowerMagnitude(stream.records[1]) > PowerMagnitude(stream.records[2])
    /\ streamed.metrics.PeakPowerWatts = PowerMagnitude(stream.records[1])
    /\ batch.metrics.PeakPowerWatts = PowerMagnitude(stream.records[1])

-----------------------------------------------------------------------------
(* Vocabulary of the quotients of the snapshot *)

\* the sum of f[2], ..., f[n] of a sequence of numbers
RECURSIVE SumAfterFirst(_, _)
SumAfterFirst(f, n) == IF n <= 1 THEN 0 ELSE f[n] + SumAfterFirst(f, n - 1)

\* the totals of the integrated records (all but the first), from the records
Totals(records) ==
    LET n == Len(records) IN
    [duration |-> SumAfterFirst([i \in 1..n |-> records[i].TimeDeltaMs], n),
     joules |-> SumAfterFirst([i \in 1..n |-> EnergyOf(records[i])], n),
     dischargeTime |->
         SumAfterFirst([i \in 1..n |-> IF records[i].CurrentNanoA < 0
                                       THEN records[i].TimeDeltaMs ELSE 0], n),
     chargeTime |->
         SumAfterFirst([i \in 1..n |-> IF records[i].CurrentNanoA < 0
                                       THEN 0 ELSE records[i].TimeDeltaMs], n),
     dischargeEnergy |->
         SumAfterFirst([i \in 1..n |-> IF records[i].CurrentNanoA < 0
                                       THEN Abs(EnergyOf(records[i])) ELSE 0], n),
     chargeEnergy |->
         SumAfterFirst([i \in 1..n |-> IF records[i].CurrentNanoA < 0
                                       THEN 0 ELSE EnergyOf(records[i])], n)]

\* the snapshots that were returned without an error, each with the totals
\* of the records it was taken of
SnapshotTotals ==
    (IF batch.done THEN { [metrics |-> batch.metrics, of |-> Totals(parse.records)] } ELSE {})
    \cup (IF streamed.done /\ streamed.err = ""
          THEN { [metrics |-> streamed.metrics, of |-> Totals(stream.records)] } ELSE {})

\* two float64 quotients have the same value
SameQuot(x, y) == x.num * y.den = y.num * x.den

\* the six quotients of a snapshot with their numerators and denominators
Quotients(m, t) ==
    { [is |-> m.AveragePowerWatts, num |-> t.joules, den |-> t.duration],
      [is |-> m.JoulesPerDay, num |-> t.joules * SecondsPerDay, den |-> t.duration],
      [is |-> m.BatteryStats.DischargeToChargeRatio,
       num |-> t.dischargeTime, den |-> t.dischargeTime + t.chargeTime],
      [is |-> m.BatteryStats.AverageDischargeRate,
       num |-> t.dischargeEnergy, den |-> t.dischargeTime],
      [is |-> m.SolarStats.AverageOutput, num |-> t.chargeEnergy, den |-> t.chargeTime],
      [is |-> m.SolarStats.ContributionPercentage,
       num |-> t.chargeEnergy * 100, den |-> t.chargeEnergy + t.dischargeEnergy] }

(* C25 as stated: each of the six quotients is 0 when its denominator is 0
   and otherwise is the quotient of its numerator by its denominator. *)
C25_ZeroOnlyAtZero ==
    \A s \in SnapshotTotals :
        \A q \in Quotients(s.metrics, s.of) :
            /\ q.is.den # 0
            /\ SameQuot(q.is, IF q.den = 0 THEN ZeroQuot ELSE Quot(q.num, q.den))

(* C25: finalizeMetrics never divides by zero: each of average power, joules
   per day, discharge-to-charge ratio, average discharge rate, solar average
   output and solar contribution percentage is 0 when its denominator is 0
   or negative, and is the quotient of its numerator by its denominator when
   the denominator is positive. *)
C25_NoDivisionByZero ==
    \A s \in SnapshotTotals :
        \A q \in Quotients(s.metrics, s.of) :
            /\ q.is.den # 0
            /\ SameQuot(q.is, IF q.den <= 0 THEN ZeroQuot ELSE Quot(q.num, q.den))

\* a snapshot of two records or more with a positive duration and energy and
\* no discharge: the discharge rate is 0, the average power is a quotient
C25_Witness ==
    /\ batch.done /\ streamed.done /\ streamed.err = ""
    /\ Totals(stream.records).duration > 0
    /\ Totals(stream.records).dischargeTime = 0
    /\ Totals(stream.records).joules > 0
    /\ Len(stream.records) >= 2
    /\ streamed.metrics.BatteryStats.AverageDischargeRate = ZeroQuot
    /\ streamed.metrics.AveragePowerWatts
           = Quot(Totals(stream.records).joules, Totals(stream.records).duration)
    /\ batch.metrics.AveragePowerWatts = streamed.metrics.AveragePowerWatts

-----------------------------------------------------------------------------
(* Vocabulary of the order of the timestamps *)

\* every time delta of the file that is an integer is >= 0 (ParseInt gives
\* the value 0 for a field that is none)
NonNegativeDeltas ==
    \A i \in 1..Len(file) : ParseInt(file[i][timeCol]).val >= 0

\* the timestamp of row i of a scan
TimestampAt(sc, i) == sc.trace[i].record.Timestamp

(* C26: for a file whose time deltas are all non-negative the start bound
   drops no row: every emitted timestamp is >= the start time, the emitted
   timestamps are non-decreasing in row order, every emitted timestamp is
   <= the end bound when one is set, and TimeRange.StartTime <=
   TimeRange.EndTime in every snapshot. *)
C26_MonotoneTimestamps ==
    NonNegativeDeltas =>
        /\ \A sc \in {parse, stream} :
              \A i \in 1..Len(sc.trace) :
                  /\ sc.trace[i].exit # "before"
                  /\ sc.trace[i].exit = "emit" =>
                        /\ TimestampAt(sc, i) >= options.StartTime.v
                        /\ ~options.EndTime.nil => TimestampAt(sc, i) <= options.EndTime.v
                        /\ \A j \in 1..(i - 1) :
                              sc.trace[j].exit = "emit"
                                  => TimestampAt(sc, j) <= TimestampAt(sc, i)
        /\ batch.done => TimeRangeSpan(batch.metrics) >= 0
        /\ (streamed.done /\ streamed.err = "") => TimeRangeSpan(streamed.metrics) >= 0

\* three rows of positive time delta and an end bound: two rows emitted at
\* increasing timestamps, the second at the end bound, the third after it
C26_Witness ==
    /\ NonNegativeDeltas /\ ~options.EndTime.nil
    /\ batch.done /\ streamed.done /\ streamed.err = ""
    /\ Len(stream.trace) = 3 /\ Len(parse.trace) = 3
    /\ stream.trace[1].exit = "emit" /\ stream.trace[2].exit = "emit"
    /\ stream.trace[3].exit = "after"
    /\ TimestampAt(stream, 1) > options.StartTime.v
    /\ TimestampAt(stream, 1) < TimestampAt(stream, 2)
    /\ TimestampAt(stream, 2) = options.EndTime.v
    /\ TimeRangeSpan(streamed.metrics) > 0
    /\ TimeRangeSpan(batch.metrics) > 0

-----------------------------------------------------------------------------
(* Vocabulary of the strides *)

\* buildFilterOptions hands the stride n of the command line to the parser
\* as it is
StridePassedOn(n) ==
    \A now \in Nows :
        /\ buildFilterOptions(CommandLineOptions([BaseArgs EXCEPT !.sample = Given(n)]),
                              now).err = ""
        /\ buildFilterOptions(CommandLineOptions([BaseArgs EXCEPT !.sample = Given(n)]),
                              now).options.SampleRate = n

\* the run with the stride 1 that followed the earlier run has ended
RunAgainOver == earlier.has /\ BatchOver /\ streamed.done

(* C27: a sample stride of 0 or below is not rejected and behaves as the
   stride 1: buildFilterOptions passes it on, no scan fails on it, no row
   is discarded by sampling, and the run of the same file with the same
   filters and the stride 1 ends with the same scans, the same records and
   the same results in both modes. *)
C27_StrideBelowOne ==
    /\ (options.SampleRate <= 0 /\ parse.status = "init")
          => StridePassedOn(options.SampleRate)
    /\ options.SampleRate <= 0 =>
          \A sc \in {parse, stream} :
              /\ RowsWithExit(sc, {"sampled"}) = {}
              /\ sc.status = "failed" => sc.err \in ErrorKinds \cup {"read"}
    /\ (RunAgainOver /\ earlier.options.SampleRate <= 0) =>
          /\ options = [earlier.options EXCEPT !.SampleRate = 1]
          /\ parse = earlier.parse
          /\ batch = earlier.batch
          /\ stream = earlier.stream
          /\ streamed = earlier.streamed

\* a file of three rows run with a negative stride and again with the
\* stride 1: two rows emitted, one dropped by a filter, in both runs
C27_Witness ==
    /\ RunAgainOver
    /\ earlier.options.SampleRate < 0 /\ options.SampleRate = 1
    /\ Len(earlier.stream.trace) = 3
    /\ Len(earlier.stream.records) = 2 /\ Len(earlier.parse.records) = 2
    /\ RowsWithExit(earlier.stream, ContinueKinds) # {}
    /\ earlier.streamed.err = "" /\ earlier.streamed.metrics.DataPoints = 2
    /\ stream.records = earlier.stream.records
    /\ batch.done /\ batch.metrics.DataPoints = 2

====
